---- MODULE Spec2Model ----
(***************************************************************************)
(* A model of the PDF schema transformer (src/src/schema_transformer.py).  *)
(*                                                                         *)
(* Encoding of the Python values:                                          *)
(*   str            a sequence of one-character strings, <<"a","b">>       *)
(*   None (a str)   the sequence None == <<"None">>, which is no str       *)
(*                  because its only element is not one character          *)
(*   None (other)   the empty sequence Nothing, a value v being <<v>>      *)
(*   list           a sequence                                             *)
(*   dict           a record, or a function for a free-form mapping        *)
(***************************************************************************)
EXTENDS Integers, Sequences, FiniteSets, TLC

(***************************************************************************)
(* Characters and the string methods the transformer uses.                 *)
(***************************************************************************)
None == <<"None">>
Nothing == <<>>
Some(v) == <<v>>

UpperChars == <<"A","B","C","D","E","F","G","H","I","J","K","L","M","N","O","P","Q","R","S","T","U","V","W","X","Y","Z">>
LowerChars == <<"a","b","c","d","e","f","g","h","i","j","k","l","m","n","o","p","q","r","s","t","u","v","w","x","y","z">>
DigitChars == {"0","1","2","3","4","5","6","7","8","9"}
SpaceChars == {" ", "\n", "\t", "\r"}

IsSpace(c) == c \in SpaceChars
IsAlpha(c) == \E i \in 1..26 : c = UpperChars[i] \/ c = LowerChars[i]
IsWordChar(c) == IsAlpha(c) \/ c \in DigitChars \/ c = "_"

\* str.lower() on one character
LowerChar(c) == IF \E i \in 1..26 : c = UpperChars[i] THEN LowerChars[CHOOSE i \in 1..26 : c = UpperChars[i]] ELSE c

\* str.lower()
StrLower(s) == [i \in 1..Len(s) |-> LowerChar(s[i])]

\* the slice s[i-1:j] of Python, 1-based and inclusive here; empty when j < i
Slice(s, i, j) == IF j < i THEN <<>> ELSE SubSeq(s, i, j)

\* the first index >= i whose character is not in class C, Len(s)+1 when none
SkipClass(s, i, C) == IF \E j \in i..Len(s) : s[j] \notin C THEN CHOOSE j \in i..Len(s) : s[j] \notin C /\ \A k \in i..(j-1) : s[k] \in C ELSE Len(s) + 1

\* str.strip()
StrStrip(s) == IF \A i \in 1..Len(s) : IsSpace(s[i]) THEN <<>> ELSE LET a == CHOOSE i \in 1..Len(s) : ~IsSpace(s[i]) /\ \A k \in 1..(i-1) : IsSpace(s[k])
         b == CHOOSE i \in 1..Len(s) : ~IsSpace(s[i]) /\ \A k \in (i+1)..Len(s) : IsSpace(s[k])
     IN  SubSeq(s, a, b)

\* str.rstrip()
StrRstrip(s) == IF \A i \in 1..Len(s) : IsSpace(s[i]) THEN <<>> ELSE LET b == CHOOSE i \in 1..Len(s) : ~IsSpace(s[i]) /\ \A k \in (i+1)..Len(s) : IsSpace(s[k])
     IN  SubSeq(s, 1, b)

\* str.rstrip(":")
RstripColon(s) == IF \A i \in 1..Len(s) : s[i] = ":" THEN <<>> ELSE LET b == CHOOSE i \in 1..Len(s) : s[i] # ":" /\ \A k \in (i+1)..Len(s) : s[k] = ":"
     IN  SubSeq(s, 1, b)

\* "\n" in s
HasNewline(s) == \E i \in 1..Len(s) : s[i] = "\n"

\* s.split("\n"): always at least one piece
RECURSIVE SplitLines(_)
SplitLines(s) == IF ~HasNewline(s) THEN <<s>> ELSE LET i == CHOOSE j \in 1..Len(s) : s[j] = "\n" /\ \A k \in 1..(j-1) : s[k] # "\n"
     IN  <<Slice(s, 1, i - 1)>> \o SplitLines(Slice(s, i + 1, Len(s)))

\* sep.join(parts)
RECURSIVE StrJoin(_, _)
StrJoin(sep, parts) == IF parts = <<>> THEN <<>> ELSE IF Len(parts) = 1 THEN parts[1] ELSE parts[1] \o sep \o StrJoin(sep, Tail(parts))

\* kw occurs in s at index p (1-based)
OccursAt(s, kw, p) == p >= 1 /\ p + Len(kw) - 1 <= Len(s) /\ SubSeq(s, p, p + Len(kw) - 1) = kw

\* kw in s
Contains(s, kw) == \E p \in 1..Len(s) : OccursAt(s, kw, p)

\* str.isalpha()
StrIsAlpha(s) == s # <<>> /\ \A i \in 1..Len(s) : IsAlpha(s[i])

\* the truth value of an optional str: None and "" are false
Truthy(s) == s # None /\ s # <<>>

(***************************************************************************)
(* Cell Normalizer: _fix_dollar and _clean_cell.                           *)
(***************************************************************************)
\* int(d) printed in decimal: the leading zeros dropped, "0" when nothing is left
IntDigits(d) == LET i == SkipClass(d, 1, {"0"}) IN IF i > Len(d) THEN <<"0">> ELSE SubSeq(d, i, Len(d))

\* the "," format of an integer: a comma before every group of three digits
RECURSIVE AddCommas(_)
AddCommas(d) == IF Len(d) <= 3 THEN d ELSE AddCommas(SubSeq(d, 1, Len(d) - 3)) \o <<",">> \o SubSeq(d, Len(d) - 2, Len(d))

\* str.zfill(2)
Zfill2(d) == IF Len(d) >= 2 THEN d ELSE IF Len(d) = 1 THEN <<"0">> \o d ELSE <<"0","0">>

_fix_dollar(digits, negative) == LET formatted == IF Len(digits) <= 2 THEN <<"0", ".">> \o Zfill2(digits)
                      ELSE AddCommas(IntDigits(SubSeq(digits, 1, Len(digits) - 2))) \o <<".">> \o SubSeq(digits, Len(digits) - 1, Len(digits))
     IN  IF negative THEN <<"(", "$">> \o formatted \o <<")">> ELSE <<"$">> \o formatted

\* re.sub(r'\n[, .]*\s*$', '', val): cut at the first newline that only
\* commas, periods, spaces and then whitespace follow to the end
SubTrailing(val) == LET tailOk(i) == SkipClass(val, SkipClass(val, i + 1, {",", " ", "."}), SpaceChars) = Len(val) + 1
         hits == {i \in 1..Len(val) : val[i] = "\n" /\ tailOk(i)}
     IN  IF hits = {} THEN val ELSE Slice(val, 1, (CHOOSE i \in hits : \A j \in hits : i <= j) - 1)

\* re.match(r'^(\()\$\s*(\d+)\s*(\))$', s): the digits, or Nothing
MatchParenDollar(s) == IF Len(s) < 4 \/ s[1] # "(" \/ s[2] # "$" THEN Nothing ELSE LET i == SkipClass(s, 3, SpaceChars)
         j == SkipClass(s, i, DigitChars)
         k == SkipClass(s, j, SpaceChars)
     IN  IF j > i /\ k = Len(s) /\ s[k] = ")" THEN Some(SubSeq(s, i, j - 1)) ELSE Nothing

\* re.match(r'^\$\s*(-?)(\d+)$', s): <<sign, digits>>, or Nothing
MatchDollar(s) == IF Len(s) < 2 \/ s[1] # "$" THEN Nothing ELSE LET i == SkipClass(s, 2, SpaceChars)
         neg == i <= Len(s) /\ s[i] = "-"
         d == IF neg THEN i + 1 ELSE i
         j == SkipClass(s, d, DigitChars)
     IN  IF j > d /\ j = Len(s) + 1 THEN Some([negative |-> neg, digits |-> SubSeq(s, d, j - 1)]) ELSE Nothing

\* re.match(r'^\$\s*-?\s*0\s*\.?\s*00$', s)
MatchZeroDollar(s) ==
    /\ Len(s) >= 4
    /\ s[1] = "$"
    /\ LET i1 == SkipClass(s, 2, SpaceChars)
           i2 == IF i1 <= Len(s) /\ s[i1] = "-" THEN i1 + 1 ELSE i1
           i3 == SkipClass(s, i2, SpaceChars)
           i4 == SkipClass(s, i3 + 1, SpaceChars)
           i5 == IF i4 <= Len(s) /\ s[i4] = "." THEN i4 + 1 ELSE i4
           i6 == SkipClass(s, i5, SpaceChars)
       IN  /\ i3 <= Len(s)
           /\ s[i3] = "0"
           /\ Slice(s, i6, Len(s)) = <<"0", "0">>

\* re.match(r'^(\d+)%$', s): the digits, or Nothing
MatchPercent(s) == LET j == SkipClass(s, 1, DigitChars) IN IF j > 1 /\ j = Len(s) /\ s[j] = "%" THEN Some(SubSeq(s, 1, j - 1)) ELSE Nothing

\* a variant of CollapseSpaces that leaves the whitespace as it is
KeepSpaces(s) == s

\* re.sub(r'\s+', ' ', s)
RECURSIVE CollapseSpaces(_)
CollapseSpaces(s) == IF s = <<>> THEN <<>> ELSE IF IsSpace(s[1]) THEN <<" ">> \o CollapseSpaces(Slice(s, SkipClass(s, 1, SpaceChars), Len(s))) ELSE <<s[1]>> \o CollapseSpaces(Tail(s))

\* the branches of _clean_cell on the stripped value and its matches
CleanMatched(val, stripped, m1, m2, m4, collapsed) == IF m1 # Nothing THEN _fix_dollar(m1[1], TRUE)
    ELSE IF m2 # Nothing THEN _fix_dollar(m2[1].digits, m2[1].negative)
    ELSE IF MatchZeroDollar(stripped) THEN <<"$", "0", ".", "0", "0">>
    ELSE IF m4 # Nothing THEN (IF HasNewline(val) /\ Len(m4[1]) >= 2 THEN SubSeq(m4[1], 1, Len(m4[1]) - 1) \o <<".">> \o <<m4[1][Len(m4[1])]>> \o <<"%">> ELSE m4[1] \o <<"%">>)
    ELSE IF collapsed # <<>> THEN collapsed ELSE None

_clean_cell(val) == IF val = None THEN None ELSE CleanMatched(val, StrStrip(SubTrailing(val)), MatchParenDollar(StrStrip(SubTrailing(val))), MatchDollar(StrStrip(SubTrailing(val))), MatchPercent(StrStrip(SubTrailing(val))), CollapseSpaces(StrStrip(SubTrailing(val))))

(***************************************************************************)
(* Row Classifier: summary rows, header equality, key-value tables.        *)
(***************************************************************************)
SUMMARY_KEYWORDS == {<<"t","o","t","a","l">>,
                     <<"s","u","m">>,
                     <<"s","u","b","t","o","t","a","l">>,
                     <<"g","r","a","n","d"," ","t","o","t","a","l">>,
                     <<"a","v","e","r","a","g","e">>,
                     <<"n","e","t"," ","t","o","t","a","l">>,
                     <<"n","e","t"," ","p","a","y","a","b","l","e">>,
                     <<"n","e","t"," ","c","o","m","m","i","s","s","i","o","n">>}

\* the longest cell the summary classifier looks at
SummaryCellMax == 60

\* a variant of WordSearch that finds the keyword inside a longer word too
WordSearchAnywhere(s, kw) == Contains(s, kw)

\* re.search(r'\b' + kw + r'\b', s): kw occurs with a word boundary on both
\* sides (every keyword starts and ends with a letter)
WordSearch(s, kw) == \E p \in 1..Len(s) : /\ OccursAt(s, kw, p)
                       /\ (p = 1 \/ ~IsWordChar(s[p - 1]))
                       /\ (p + Len(kw) - 1 = Len(s) \/ ~IsWordChar(s[p + Len(kw)]))

SummaryCell(cell) ==
    /\ Truthy(cell)
    /\ LET lower == StrLower(StrStrip(cell))
       IN  /\ Len(lower) <= SummaryCellMax
           /\ \E kw \in SUMMARY_KEYWORDS : WordSearch(lower, kw)

_is_summary_row(row) == \E i \in 1..Len(row) : SummaryCell(row[i])

\* a variant of _headers_match that finds no two header lists equal
HeadersNeverMatch(h1, h2) == FALSE

_headers_match(h1, h2) == Len(h1) = Len(h2) /\ h1 = h2

_is_key_value_table(cells) ==
    /\ Len(cells) >= 2
    /\ Len(cells[1]) >= 2
    /\ \A c \in {k \in 1..Len(cells[1]) : k % 2 = 1} :
          LET colon_count == Cardinality({r \in 1..Len(cells) : /\ Truthy(cells[r][c])
                                                                /\ LET k == StrRstrip(cells[r][c]) IN k # <<>> /\ k[Len(k)] = ":"})
          IN  ~(2 * colon_count < Len(cells))

\* a variant of the assignment that keeps the value a key already has
DictPutFirstWins(kv, key, val) == [k \in (DOMAIN kv) \cup {key} |-> IF k \in DOMAIN kv THEN kv[k] ELSE val]

\* kv[key] = val
DictPut(kv, key, val) == [k \in (DOMAIN kv) \cup {key} |-> IF k = key THEN val ELSE kv[k]]

\* the loops of _extract_key_values from the n-th (row, key column) pair on,
\* rows outermost; K key columns per row
RECURSIVE ExtractFrom(_, _, _, _)
ExtractFrom(cells, K, n, kv) == IF n > Len(cells) * K THEN kv ELSE LET row == cells[((n - 1) \div K) + 1]
         c == 2 * ((n - 1) % K) + 1
         key == row[c]
     IN  ExtractFrom(cells, K, n + 1, IF Truthy(key) THEN DictPut(kv, StrStrip(RstripColon(key)), row[c + 1]) ELSE kv)

_extract_key_values(cells) == LET K == Len(cells[1]) \div 2 IN IF K = 0 THEN <<>> ELSE ExtractFrom(cells, K, 1, <<>>)

(***************************************************************************)
(* Trailing-Totals Parser.                                                 *)
(***************************************************************************)
\* [ln.strip() for ln in lines if ln.strip()]
RECURSIVE StripNonEmpty(_)
StripNonEmpty(lines) == IF lines = <<>> THEN <<>> ELSE LET ln == StrStrip(lines[1]) IN (IF ln # <<>> THEN <<ln>> ELSE <<>>) \o StripNonEmpty(Tail(lines))

\* the values after the line at total_idx, with its label
TotalsAt(label, values) == IF values # <<>> THEN Some([label |-> label, values |-> values]) ELSE Nothing

\* the first line that contains "total", among the lines hits
TotalsFrom(lines, hits) == IF hits = {} THEN Nothing ELSE TotalsAt(StrStrip(lines[CHOOSE i \in hits : \A j \in hits : i <= j]), StripNonEmpty(Slice(lines, (CHOOSE i \in hits : \A j \in hits : i <= j) + 1, Len(lines))))

\* Nothing, or the record {label, values}
_parse_trailing_totals(trailing_text) == IF ~Truthy(trailing_text) THEN Nothing ELSE TotalsFrom(SplitLines(StrStrip(trailing_text)), {i \in 1..Len(SplitLines(StrStrip(trailing_text))) : Contains(StrLower(SplitLines(StrStrip(trailing_text))[i]), <<"t","o","t","a","l">>)})

(***************************************************************************)
(* OCR Table Reconstructor.                                                *)
(***************************************************************************)
\* a first line longer than this is a title; a header line is shorter
HeaderLineMax == 30

\* a line that starts a row is shorter than this
RowStartMax == 20

\* the fewest OCR lines of a table
MinOcrLines == 5

\* the most header lines collected
MaxHeaderScan == 6

\* [ln.strip() for ln in ocr_text.strip().split("\n") if ln.strip()]
OcrLines(ocr_text) == StripNonEmpty(SplitLines(StrStrip(ocr_text)))

\* the header loop: lines i.. (1-based) up to index last, until one fails
RECURSIVE ScanHeaders(_, _, _)
ScanHeaders(lines, i, last) == IF i > last THEN <<>> ELSE IF Len(lines[i]) < HeaderLineMax /\ Cardinality({k \in 1..Len(lines) : lines[k] = lines[i]}) = 1 THEN <<lines[i]>> \o ScanHeaders(lines, i + 1, last) ELSE <<>>

\* a variant of DetectHeaders that asks for one further line per header
DetectHeadersOnePerHeader(lines, start, headers) == IF Len(headers) < 2 THEN Nothing ELSE IF Len(lines) - start - Len(headers) >= Len(headers) THEN Some(headers) ELSE Nothing

\* the headers collected from the lines after the title (start is 0 or 1)
DetectHeaders(lines, start, headers) == IF Len(headers) < 2 THEN Nothing ELSE IF Len(lines) - start - Len(headers) >= Len(headers) * 2 THEN Some(headers) ELSE Nothing

DetectFrom(lines, start) == DetectHeaders(lines, start, ScanHeaders(lines, start + 1, IF start + MaxHeaderScan < Len(lines) THEN start + MaxHeaderScan ELSE Len(lines)))

DetectLines(lines) == IF Len(lines) < MinOcrLines THEN Nothing ELSE DetectFrom(lines, IF Len(lines[1]) > HeaderLineMax THEN 1 ELSE 0)

\* Nothing, or the header list
_detect_image_table(ocr_text) == IF ocr_text = <<>> THEN Nothing ELSE DetectLines(OcrLines(ocr_text))

\* line.replace(" ", "")
RECURSIVE DropBlanks(_)
DropBlanks(s) == IF s = <<>> THEN <<>> ELSE (IF s[1] = " " THEN <<>> ELSE <<s[1]>>) \o DropBlanks(Tail(s))

is_row_start(line) == Len(line) < RowStartMax /\ StrIsAlpha(DropBlanks(line)) /\ ~Contains(line, <<"-">>)

\* the grouping loop: <<row_groups, current>> after the lines
RECURSIVE GroupRows(_, _, _)
GroupRows(data_lines, row_groups, current) == IF data_lines = <<>> THEN (IF current # <<>> THEN Append(row_groups, current) ELSE row_groups)
    ELSE IF is_row_start(data_lines[1]) /\ current # <<>> THEN GroupRows(Tail(data_lines), Append(row_groups, current), <<data_lines[1]>>)
    ELSE GroupRows(Tail(data_lines), row_groups, Append(current, data_lines[1]))

\* a group padded or folded to ncols cells
PadGroup(group, ncols) == IF Len(group) >= ncols THEN Slice(group, 1, ncols - 1) \o <<StrJoin(<<" ">>, Slice(group, ncols, Len(group)))>> ELSE group \o [i \in 1..(ncols - Len(group)) |-> None]

\* the classification loop shared by the table paths: rows are appended,
\* a summary row replaces the summary so far
RECURSIVE ClassifyRows(_, _, _)
ClassifyRows(todo, rows, summary) == IF todo = <<>> THEN [rows |-> rows, summary_row |-> summary]
    ELSE IF _is_summary_row(todo[1]) THEN ClassifyRows(Tail(todo), rows, Some(todo[1]))
    ELSE ClassifyRows(Tail(todo), Append(rows, todo[1]), summary)

\* lines.index(x): the first index, 1-based
IndexOf(lines, x) == CHOOSE i \in 1..Len(lines) : lines[i] = x /\ \A j \in 1..(i - 1) : lines[j] # x

\* the row groups padded to ncols cells
PadGroups(row_groups, ncols) == [g \in 1..Len(row_groups) |-> PadGroup(row_groups[g], ncols)]

\* the lines after the headers (all of them for a continuation)
DataLines(lines, headers, skip_header) == IF skip_header THEN lines ELSE Slice(lines, IndexOf(lines, headers[Len(headers)]) + 1, Len(lines))

\* the record [rows, summary_row]
_parse_image_table(ocr_text, headers, skip_header) == ClassifyRows(PadGroups(GroupRows(DataLines(OcrLines(ocr_text), headers, skip_header), <<>>, <<>>), Len(headers)), <<>>, Nothing)

(***************************************************************************)
(* Page/Block State Machine: the handlers of SchemaTransformer, each an    *)
(* operator from the transformer's fields (a record s) to the fields after *)
(* the call.  A block's page is [int |-> n] for a page number and          *)
(* [list |-> p] for a list of them; the data of a text_block or image_text *)
(* is [text |-> str].                                                      *)
(***************************************************************************)
\* the fields after __init__
InitFields == [blocks |-> <<>>, heading |-> None, text_buf |-> <<>>, text_page |-> Nothing, pending_table |-> Nothing, last_img_tbl_headers |-> Nothing, pg |-> 0, page_tables |-> <<>>, page_images |-> <<>>, table_idx |-> 0]

_make_block(title, description, block_type, data, page) == [title |-> IF Truthy(title) THEN title ELSE <<>>, description |-> IF Truthy(description) THEN description ELSE <<>>, type |-> block_type, data |-> data, page |-> page]

_flush_text(s) == IF s.text_buf = <<>> THEN s ELSE [s EXCEPT !.blocks = Append(@, _make_block(s.heading, <<>>, "text_block", [text |-> StrJoin(<<"\n">>, s.text_buf)], [int |-> s.text_page[1]])),
                   !.text_buf = <<>>,
                   !.text_page = Nothing]

\* len(page) == 1 collapses the list to its element
CollapsePage(page) == IF Len(page) = 1 THEN [int |-> page[1]] ELSE [list |-> page]

\* the summary row of the flushed block: the pending one, else the trailing totals
TotalsRow(totals, summary_row) == IF totals # Nothing THEN Some(<<totals[1].label>> \o totals[1].values) ELSE summary_row

\* a variant of FlushSummary that takes the trailing totals first
FlushSummaryTotalsFirst(pt) == IF Truthy(pt._trailing) THEN TotalsRow(_parse_trailing_totals(pt._trailing), pt.summary_row) ELSE pt.summary_row

FlushSummary(pt) == IF pt.summary_row = Nothing /\ Truthy(pt._trailing) THEN TotalsRow(_parse_trailing_totals(pt._trailing), pt.summary_row) ELSE pt.summary_row

\* the block of the pending table pt
PendingBlock(pt) == _make_block(pt.title, pt.description, "table", [headers |-> pt.headers, rows |-> pt.rows, summary_row |-> FlushSummary(pt)], CollapsePage(pt.page))

_flush_pending_table(s) == IF s.pending_table = Nothing THEN s ELSE [s EXCEPT !.blocks = Append(@, PendingBlock(s.pending_table[1])), !.pending_table = Nothing]

\* [[_clean_cell(c) for c in row] for row in cells]
CleanRows(cells) == [r \in 1..Len(cells) |-> [c \in 1..Len(cells[r]) |-> _clean_cell(cells[r][c])]]

\* the fallback of _resolve_table_data: the layout table lt with its cleaned rows
ResolveLayout(s, lt, all_rows) == [s |-> s, headers |-> IF all_rows # <<>> THEN all_rows[1] ELSE <<>>, all_rows |-> all_rows, tab |-> Some([header_names |-> IF all_rows # <<>> THEN all_rows[1] ELSE <<>>, cells |-> lt.cells, trailing_text |-> None])]

\* the next machine-detected table of the page
ResolveDetected(s, tab) == [s |-> [s EXCEPT !.table_idx = @ + 1], headers |-> [h \in 1..Len(tab.header_names) |-> _clean_cell(tab.header_names[h])], all_rows |-> CleanRows(tab.cells), tab |-> Some(tab)]

\* the record [s, headers, all_rows, tab]; tab is Nothing when the box resolves to no table
_resolve_table_data(s, box) == IF s.table_idx < Len(s.page_tables) THEN ResolveDetected(s, s.page_tables[s.table_idx + 1])
    ELSE IF box.layout_table # Nothing THEN ResolveLayout(s, box.layout_table[1], CleanRows(box.layout_table[1].cells))
    ELSE [s |-> s, headers |-> <<>>, all_rows |-> <<>>, tab |-> Nothing]

\* a buffered line shorter than this may serve as the title
TitleMax == 80

\* a variant of _resolve_title_description that leaves the text buffered
ResolveTitleKeepText(s) == [s |-> s, title |-> s.heading, description |-> IF s.text_buf = <<>> THEN None ELSE StrJoin(<<"\n">>, s.text_buf)]

\* the only buffered line serves as the title
AsTitle(s) == ~Truthy(s.heading) /\ Len(s.text_buf) = 1 /\ Len(s.text_buf[1]) < TitleMax

\* the record [s, title, description]
_resolve_title_description(s) == IF s.text_buf = <<>> THEN [s |-> s, title |-> s.heading, description |-> None]
    ELSE [s |-> [s EXCEPT !.text_buf = <<>>, !.text_page = Nothing],
          title |-> IF AsTitle(s) THEN s.text_buf[1] ELSE s.heading,
          description |-> IF AsTitle(s) THEN None ELSE StrJoin(<<"\n">>, s.text_buf)]

\* a variant of CanMerge whose column-count rule takes a table of any page
CanMergeAnyPage(s, headers) == s.pending_table # Nothing /\ Len(s.pending_table[1]._raw_headers) = Len(headers)

\* whether _try_merge_table merges, and by the column-count rule
CanMerge(s, headers) ==
    /\ s.pending_table # Nothing
    /\ LET pt == s.pending_table[1]
       IN  \/ _headers_match(pt._raw_headers, headers)
           \/ (Len(pt._raw_headers) = Len(headers) /\ s.pg <= pt.page[Len(pt.page)] + 1)

UsePendingHeaders(s, headers) == ~_headers_match(s.pending_table[1]._raw_headers, headers)

\* a variant of MergeInto that lists the page again at every merge
MergeIntoAlways(pt, cl, pg, tab) == [pt EXCEPT !.rows = cl.rows, !.summary_row = cl.summary_row, !.page = Append(pt.page, pg),
                                         !._trailing = IF Truthy(tab.trailing_text) THEN tab.trailing_text ELSE pt._trailing]

\* the pending table pt after the rows classified as cl are folded in on page pg
MergeInto(pt, cl, pg, tab) == [pt EXCEPT !.rows = cl.rows, !.summary_row = cl.summary_row,
                                   !.page = IF \E i \in 1..Len(pt.page) : pt.page[i] = pg THEN pt.page ELSE Append(pt.page, pg),
                                   !._trailing = IF Truthy(tab.trailing_text) THEN tab.trailing_text ELSE pt._trailing]

\* the record [s, merged]
_try_merge_table(s, headers, data_rows, all_rows, tab) == IF ~CanMerge(s, headers) THEN [s |-> s, merged |-> FALSE]
    ELSE [s |-> [s EXCEPT !.pending_table = Some(MergeInto(s.pending_table[1], ClassifyRows(IF UsePendingHeaders(s, headers) THEN all_rows ELSE data_rows, s.pending_table[1].rows, s.pending_table[1].summary_row), s.pg, tab))], merged |-> TRUE]

\* [r for r in all_rows if r != headers]
DataRows(all_rows, headers) == SelectSeq(all_rows, LAMBDA r : r # headers)

\* the new pending table of _on_table
NewPending(pg, td, res, cl) == [page |-> <<pg>>, title |-> td.title, description |-> td.description, headers |-> res.headers, rows |-> cl.rows, summary_row |-> cl.summary_row, _raw_headers |-> res.headers, _trailing |-> res.tab[1].trailing_text]

\* the end of _on_table: the table was not merged (s3 is the state after the flush)
StartPending(s3, td, res, data_rows) == [s3 EXCEPT !.pending_table = Some(NewPending(s3.pg, td, res, ClassifyRows(data_rows, <<>>, Nothing)))]

\* _on_table after the merge attempt mg
AfterMerge(mg, s2, td, res, data_rows) == IF mg.merged THEN mg.s ELSE StartPending(_flush_pending_table(s2), td, res, data_rows)

\* _on_table for a table that is not a key-value table
MergeOrStart(s2, td, res, data_rows) == AfterMerge(_try_merge_table(s2, res.headers, data_rows, res.all_rows, res.tab[1]), s2, td, res, data_rows)

\* _on_table for a key-value table (s3 is the state after the flush)
EmitKeyValue(s3, td, res) == [s3 EXCEPT !.blocks = Append(@, _make_block(td.title, td.description, "table", [key_value |-> _extract_key_values(res.all_rows)], [int |-> s3.pg]))]

\* a variant of OnResolved that emits a key-value table without the flush
OnResolvedKeepPending(td, res) == IF _is_key_value_table(res.all_rows) THEN EmitKeyValue(td.s, td, res)
    ELSE MergeOrStart(td.s, td, res, DataRows(res.all_rows, res.headers))

\* _on_table once the table data res is resolved and the title and description td taken
OnResolved(td, res) == IF _is_key_value_table(res.all_rows) THEN EmitKeyValue(_flush_pending_table(td.s), td, res)
    ELSE MergeOrStart(td.s, td, res, DataRows(res.all_rows, res.headers))

\* _on_table after _resolve_table_data (s1 is the state before it)
OnTableData(s1, res) == IF res.tab = Nothing THEN s1 ELSE OnResolved(_resolve_title_description(res.s), res)

\* the picture context is dropped first
ResetImgHeaders(s) == [s EXCEPT !.last_img_tbl_headers = Nothing]

_on_table(s, box) == OnTableData(ResetImgHeaders(s), _resolve_table_data(ResetImgHeaders(s), box))

\* an image lies within this distance of the box on both axes
MatchDist == 30

Abs(n) == IF n < 0 THEN -n ELSE n

\* the images of the page near the box
NearImages(s, box) == {i \in 1..Len(s.page_images) : /\ Abs(s.page_images[i].bbox[1] - box.bbox[1]) < MatchDist
                                                     /\ Abs(s.page_images[i].bbox[2] - box.bbox[2]) < MatchDist}

FirstOcr(s, near) == IF near = {} THEN <<>> ELSE s.page_images[CHOOSE i \in near : \A j \in near : i <= j].ocr_text

_match_ocr_text(s, box) == FirstOcr(s, NearImages(s, box))

\* the block of a picture
PictureBlock(s1, description, block_type, data) == [s1 EXCEPT !.blocks = Append(@, _make_block(s1.heading, description, block_type, data, [int |-> s1.pg]))]

\* the first branch of _on_picture: the OCR text starts a table with these headers
PictureTable(s1, headers, pr) == [PictureBlock(s1, IF s1.text_buf # <<>> THEN StrJoin(<<"\n">>, s1.text_buf) ELSE <<>>, "image_table", [headers |-> headers, rows |-> pr.rows, summary_row |-> pr.summary_row]) EXCEPT !.text_buf = <<>>, !.text_page = Nothing, !.last_img_tbl_headers = Some(headers)]

\* the second branch of _on_picture: the OCR text continues the table before it
PictureContinuation(s1, ocr_text, headers, pr) == IF pr.rows # <<>> THEN PictureBlock(s1, <<>>, "image_table", [headers |-> headers, rows |-> pr.rows, summary_row |-> pr.summary_row])
    ELSE PictureBlock(s1, <<>>, "image_text", [text |-> ocr_text])

\* _on_picture after the flushes, the match and the detection
OnPictureDetected(s1, ocr_text, img_headers) == IF img_headers # Nothing THEN PictureTable(s1, img_headers[1], _parse_image_table(ocr_text, img_headers[1], FALSE))
    ELSE IF s1.last_img_tbl_headers # Nothing /\ ocr_text # <<>> THEN PictureContinuation(s1, ocr_text, s1.last_img_tbl_headers[1], _parse_image_table(ocr_text, s1.last_img_tbl_headers[1], TRUE))
    ELSE PictureBlock(s1, <<>>, "image_text", [text |-> ocr_text])

OnPictureFlushed(s1, box) == OnPictureDetected(s1, _match_ocr_text(s1, box), _detect_image_table(_match_ocr_text(s1, box)))

_on_picture(s, box) == OnPictureFlushed(_flush_pending_table(_flush_text(s)), box)

\* a variant of _on_heading that sets the heading before it flushes
OnHeadingSetFirst(s, text) == _flush_pending_table(_flush_text([s EXCEPT !.heading = IF HasNewline(text) THEN StrStrip(SplitLines(text)[Len(SplitLines(text))]) ELSE text]))

_on_heading(s, text) == [_flush_pending_table(_flush_text(s)) EXCEPT !.heading = IF HasNewline(text) THEN StrStrip(SplitLines(text)[Len(SplitLines(text))]) ELSE text]

_on_text(s, text) == [s EXCEPT !.text_page = IF s.text_buf = <<>> THEN Some(s.pg) ELSE @, !.text_buf = Append(@, text)]

\* a variant of StartPage that goes on counting the tables from the page before
StartPageKeepIndex(s, page_data) == [s EXCEPT !.pg = page_data.page_number, !.page_tables = page_data.tables, !.page_images = page_data.images]

\* the head of _process_page: the page's number, tables and images
StartPage(s, page_data) == [s EXCEPT !.pg = page_data.page_number, !.page_tables = page_data.tables, !.page_images = page_data.images, !.table_idx = 0]

\* the body of the loop of _process_page, for one box
ProcessBox(s, box) == LET text == StrStrip(box.text)
     IN  IF box.boxclass \in {"section-header", "header"} THEN _on_heading(s, text)
         ELSE IF box.boxclass = "table" THEN _on_table(s, box)
         ELSE IF box.boxclass = "picture" THEN _on_picture(s, box)
         ELSE IF box.boxclass \in {"text", "list-item"} /\ text # <<>> THEN _on_text(s, text)
         ELSE s

RECURSIVE ProcessBoxes(_, _)
ProcessBoxes(s, boxes) == IF boxes = <<>> THEN s ELSE ProcessBoxes(ProcessBox(s, boxes[1]), Tail(boxes))

_process_page(s, page_data) == ProcessBoxes(StartPage(s, page_data), page_data.layout_boxes)

RECURSIVE ProcessPages(_, _)
ProcessPages(s, pages) == IF pages = <<>> THEN s ELSE ProcessPages(_process_page(s, pages[1]), Tail(pages))

\* a variant of FinalFlush that leaves the pending table
FinalFlushTextOnly(s) == _flush_text(s)

\* the two flushes that end _run
FinalFlush(s) == _flush_pending_table(_flush_text(s))

\* _run on a whole document: the blocks returned
_run(raw_pages) == FinalFlush(ProcessPages(InitFields, raw_pages)).blocks

(***************************************************************************)
(* The documents of the model: the boxes, tables and images a page may     *)
(* hold.                                                                   *)
(***************************************************************************)
\* the machine-detected tables a page may hold: A/B with a total row; A/B with
\* a newline in a header, a dollar amount and the trailing totals "TOTAL",
\* "7", "8" between another line, a blank line and spaces; C/D over a repeated
\* A/B row, with a trailing total line that nothing follows; a key-value
\* table; a table of three columns with a subtotal row and a total row
MachineTables == {[header_names |-> <<<<"A">>, <<"B">>>>, cells |-> <<<<<<"A">>, <<"B">>>>, <<<<"x">>, <<"1">>>>, <<<<"T","o","t","a","l">>, <<"1">>>>>>, trailing_text |-> None], [header_names |-> <<<<"A","\n">>, <<"B">>>>, cells |-> <<<<<<"A","\n">>, <<"B">>>>, <<<<"y">>, <<"$","2","5","0">>>>>>, trailing_text |-> <<"N","e","t","\n"," ","T","O","T","A","L"," ","\n","\n"," ","7"," ","\n","8">>], [header_names |-> <<<<"C">>, <<"D">>>>, cells |-> <<<<<<"A">>, <<"B">>>>, <<<<"z">>, <<"3">>>>>>, trailing_text |-> <<"T","o","t","a","l",":","\n"," ">>], [header_names |-> <<<<"N","a","m","e",":">>, <<"A","c","m","e">>>>, cells |-> <<<<<<"N","a","m","e",":">>, <<"A","c","m","e">>>>, <<<<"D","a","t","e",":">>, <<"2","0","2","4">>>>>>, trailing_text |-> None], [header_names |-> <<<<"A">>, <<"B">>, <<"C">>>>, cells |-> <<<<<<"A">>, <<"B">>, <<"C">>>>, <<<<"S","u","b","t","o","t","a","l">>, <<"1">>, <<"2">>>>, <<<<"x">>, <<"1">>, <<"2">>>>, <<<<"T","o","t","a","l">>, <<"3">>, <<"4">>>>>>, trailing_text |-> None]}

\* the images of every page of the pipeline's documents
PageImages == <<[bbox |-> <<0, 0, 100, 100>>, ocr_text |-> <<"N","a","m","e","\n","Q","t","y","\n","x","\n","1","\n","x","\n","1">>], [bbox |-> <<200, 0, 300, 100>>, ocr_text |-> <<"y","\n","2">>], [bbox |-> <<400, 0, 500, 100>>, ocr_text |-> <<"T","o","t","a","l","\n","9">>]>>

Box(cls, text, bbox, lt) == [boxclass |-> cls, text |-> text, bbox |-> bbox, layout_table |-> lt]

\* the layout boxes a page may hold, by the branch of _process_page they take
HeadingBoxes == {Box("section-header", <<"S","u","m","m","a","r","y">>, <<0, 0, 10, 10>>, Nothing), Box("header", <<>>, <<0, 0, 10, 10>>, Nothing), Box("section-header", <<"A","n","n","e","x","\n","T","o","t","a","l","s">>, <<0, 0, 10, 10>>, Nothing)}
TextBoxes == {Box("text", <<"S","e","e"," ","b","e","l","o","w","."," ">>, <<0, 0, 10, 10>>, Nothing), Box("list-item", [i \in 1..TitleMax |-> "w"], <<0, 0, 10, 10>>, Nothing)}
OtherBoxes == {Box("text", <<" ">>, <<0, 0, 10, 10>>, Nothing), Box("page-footer", <<"7">>, <<0, 0, 10, 10>>, Nothing)}
TableBoxes == {Box("table", <<>>, <<0, 0, 10, 10>>, Nothing), Box("table", <<>>, <<0, 0, 10, 10>>, Some([cells |-> <<<<<<"A">>, <<"B">>>>, <<<<"w">>, <<"4">>>>>>]))}
PictureBoxes == {Box("picture", <<>>, <<29, 29, 90, 90>>, Nothing), Box("picture", <<>>, <<171, 0, 300, 100>>, Nothing), Box("picture", <<>>, <<400, -29, 500, 100>>, Nothing), Box("picture", <<>>, <<30, 0, 100, 100>>, Nothing)}

(***************************************************************************)
(* The transformer as a state machine.  One step reads the next page       *)
(* header or the next layout box of the document, which the environment    *)
(* chooses as it is read; raw_pages records the document read so far.      *)
(* A page's machine-detected tables are chosen as the code first looks at  *)
(* them: page_tables holds those looked at so far and tables_open says     *)
(* whether the list may still go on (it is closed once a table box has     *)
(* found it exhausted).  arg and ret hold the argument and the results of *)
(* a helper or a query called on its own.                                  *)
(***************************************************************************)
VARIABLES blocks, heading, text_buf, text_page, pending_table, last_img_tbl_headers, pg, page_tables, page_images, table_idx, pc, raw_pages, tables_open, prov, text_src, pend_prov, last_pic, ocr_draft, arg, ret

fields == <<blocks, heading, text_buf, text_page, pending_table, last_img_tbl_headers, pg, page_tables, page_images, table_idx>>
history == <<prov, text_src, pend_prov, last_pic>>
call == <<arg, ret>>
vars == <<fields, pc, raw_pages, tables_open, history, ocr_draft, call>>

\* the most page headers and boxes one document of the pipeline has
MaxSteps == 4

\* the transformer's fields as one record
Self == [blocks |-> blocks, heading |-> heading, text_buf |-> text_buf, text_page |-> text_page, pending_table |-> pending_table, last_img_tbl_headers |-> last_img_tbl_headers, pg |-> pg, page_tables |-> page_tables, page_images |-> page_images, table_idx |-> table_idx]

SetSelf(s) ==
    /\ blocks' = s.blocks
    /\ heading' = s.heading
    /\ text_buf' = s.text_buf
    /\ text_page' = s.text_page
    /\ pending_table' = s.pending_table
    /\ last_img_tbl_headers' = s.last_img_tbl_headers
    /\ pg' = s.pg
    /\ page_tables' = s.page_tables
    /\ page_images' = s.page_images
    /\ table_idx' = s.table_idx

RECURSIVE CountBoxes(_)
CountBoxes(pages) == IF pages = <<>> THEN 0 ELSE Len(pages[1].layout_boxes) + CountBoxes(Tail(pages))

NBoxes == CountBoxes(raw_pages)
NSteps == Len(raw_pages) + NBoxes

\* which branch of _on_table a table box takes from the fields s
OutcomeOf(s, res) == IF res.tab = Nothing THEN "ignored"
    ELSE IF _is_key_value_table(res.all_rows) THEN "key_value"
    ELSE IF CanMerge(s, res.headers) THEN "merged"
    ELSE "new"

TableOutcome(s, box) == OutcomeOf(s, _resolve_table_data(s, box))

\* History of the run, for stating the claims: for every block the ordinal
\* of the first box that contributed to it (src), the pages of the table
\* boxes folded into it (pages) and, for a picture's block, whether its OCR
\* text was detected as a table (detected) and what the picture before it
\* produced (prev_pic), and the data rows folded into it (rows: the rows of a
\* table other than its header row, the row groups of an OCR text) and the
\* trailing text of every table folded into it (trailing); the same
\* for the buffered text and the pending table.
NoProv == [src |-> 0, pages |-> <<>>, detected |-> FALSE, prev_pic |-> "none", rows |-> <<>>, trailing |-> <<>>]

\* the data rows of the table a table box resolves to
FoldedRows(res) == DataRows(res.all_rows, res.headers)

\* the row groups of the OCR text behind an image_table block
FoldedGroups(ocr_text, headers, detected) == PadGroups(GroupRows(DataLines(OcrLines(ocr_text), headers, ~detected), <<>>, <<>>), Len(headers))

IsPendingBlock(b) == b.type = "table" /\ "headers" \in DOMAIN b.data
IsKeyValueBlock(b) == b.type = "table" /\ "key_value" \in DOMAIN b.data
IsPictureBlock(b) == b.type \in {"image_table", "image_text"}

ProvOf(b, s, box, idx) == IF b.type = "text_block" THEN [NoProv EXCEPT !.src = text_src]
    ELSE IF IsPendingBlock(b) THEN pend_prov
    ELSE IF IsKeyValueBlock(b) THEN [NoProv EXCEPT !.src = IF s.text_buf # <<>> THEN text_src ELSE idx, !.pages = <<s.pg>>]
    ELSE [NoProv EXCEPT !.src = idx, !.pages = <<s.pg>>, !.detected = _detect_image_table(_match_ocr_text(s, box)) # Nothing, !.prev_pic = last_pic,
                        !.rows = IF b.type = "image_table" THEN FoldedGroups(_match_ocr_text(s, box), b.data.headers, _detect_image_table(_match_ocr_text(s, box)) # Nothing) ELSE <<>>]

\* the history after the fields s have become s2 by the idx-th box, a table
\* box with this outcome ("none" for another box)
TrackOutcome(s, s2, box, idx, outcome) ==
    /\ prov' = prov \o [j \in 1..(Len(s2.blocks) - Len(s.blocks)) |-> ProvOf(s2.blocks[Len(s.blocks) + j], s, box, idx)]
    /\ text_src' = IF s2.text_buf = <<>> THEN 0 ELSE IF s.text_buf = <<>> THEN idx ELSE text_src
    /\ pend_prov' = IF outcome = "new" THEN [NoProv EXCEPT !.src = IF s.text_buf # <<>> THEN text_src ELSE idx, !.pages = <<s.pg>>, !.rows = FoldedRows(_resolve_table_data(s, box)), !.trailing = <<_resolve_table_data(s, box).tab[1].trailing_text>>]
                    ELSE IF outcome = "merged" THEN [pend_prov EXCEPT !.pages = Append(@, s.pg), !.rows = @ \o FoldedRows(_resolve_table_data(s, box)), !.trailing = Append(@, _resolve_table_data(s, box).tab[1].trailing_text)]
                    ELSE IF s2.pending_table = Nothing THEN NoProv ELSE pend_prov
    /\ last_pic' = IF box.boxclass = "picture" THEN s2.blocks[Len(s2.blocks)].type ELSE last_pic

Track(s, s2, box, idx) == TrackOutcome(s, s2, box, idx, IF box.boxclass = "table" THEN TableOutcome(s, box) ELSE "none")

\* the state after __init__, the run at position p
InitAt(p) ==
    /\ blocks = InitFields.blocks
    /\ heading = InitFields.heading
    /\ text_buf = InitFields.text_buf
    /\ text_page = InitFields.text_page
    /\ pending_table = InitFields.pending_table
    /\ last_img_tbl_headers = InitFields.last_img_tbl_headers
    /\ pg = InitFields.pg
    /\ page_tables = InitFields.page_tables
    /\ page_images = InitFields.page_images
    /\ table_idx = InitFields.table_idx
    /\ pc = p
    /\ raw_pages = <<>>
    /\ tables_open = FALSE
    /\ prov = <<>>
    /\ text_src = 0
    /\ pend_prov = NoProv
    /\ last_pic = "none"
    /\ ocr_draft = <<>>
    /\ arg = <<>>
    /\ ret = <<>>

Init == InitAt("run")

CanStep == pc = "run" /\ raw_pages # <<>> /\ NSteps < MaxSteps

\* the next box of the current page goes through the loop body of
\* _process_page, from the fields s
Taken(s, s2, box) ==
    /\ SetSelf(s2)
    /\ raw_pages' = [raw_pages EXCEPT ![Len(raw_pages)] = [@ EXCEPT !.layout_boxes = Append(@, box), !.tables = s.page_tables]]
    /\ Track(s, s2, box, NBoxes + 1)
    /\ UNCHANGED <<pc, ocr_draft, call>>

TakeBox(s, box) == Taken(s, ProcessBox(s, box), box)

\* _process_page up to its loop: the next page begins
\* how far a page's number lies after the page before it (the first after 0)
PageGaps == {1, 2}

NewPage(gap) == [page_number |-> (IF raw_pages = <<>> THEN 0 ELSE raw_pages[Len(raw_pages)].page_number) + gap, tables |-> <<>>, images |-> PageImages, layout_boxes |-> <<>>]

ProcessPage ==
    /\ pc = "run"
    /\ NSteps < MaxSteps
    /\ \E gap \in PageGaps : /\ SetSelf(StartPage(Self, NewPage(gap)))
                             /\ raw_pages' = Append(raw_pages, NewPage(gap))
    /\ tables_open' = TRUE
    /\ UNCHANGED <<pc, history, ocr_draft, call>>

HeadingBox ==
    /\ CanStep
    /\ \E box \in HeadingBoxes : TakeBox(Self, box)
    /\ UNCHANGED tables_open

TextBox ==
    /\ CanStep
    /\ \E box \in TextBoxes : TakeBox(Self, box)
    /\ UNCHANGED tables_open

OtherBox ==
    /\ CanStep
    /\ \E box \in OtherBoxes : TakeBox(Self, box)
    /\ UNCHANGED tables_open

PictureBox ==
    /\ CanStep
    /\ \E box \in PictureBoxes : TakeBox(Self, box)
    /\ UNCHANGED tables_open

\* a table box for which the page still has a machine-detected table
TableBoxDetected ==
    /\ CanStep
    /\ tables_open
    /\ \E tab \in MachineTables : TakeBox([Self EXCEPT !.page_tables = Append(@, tab)], Box("table", <<>>, <<0, 0, 10, 10>>, Nothing))
    /\ UNCHANGED tables_open

\* a table box that finds the page's machine-detected tables used up
TableBoxFallback ==
    /\ CanStep
    /\ \E box \in TableBoxes : TakeBox(Self, box)
    /\ tables_open' = FALSE

\* the end of _run: the pages are over
Finish ==
    /\ pc = "run"
    /\ SetSelf(FinalFlush(Self))
    /\ Track(Self, FinalFlush(Self), Box("end", <<>>, <<0, 0, 0, 0>>, Nothing), 0)
    /\ pc' = "done"
    /\ UNCHANGED <<raw_pages, tables_open, ocr_draft, call>>

Next ==
    \/ ProcessPage
    \/ HeadingBox
    \/ TextBox
    \/ OtherBox
    \/ PictureBox
    \/ TableBoxDetected
    \/ TableBoxFallback
    \/ Finish

Spec == Init /\ [][Next]_vars

(***************************************************************************)
(* A second state machine, for the OCR path alone: the OCR text of one     *)
(* picture is put together chunk by chunk (ocr_draft holds the chunks, the *)
(* text is the chunks joined by newlines), then the transformer runs on    *)
(* the one-page document that holds the picture.                           *)
(***************************************************************************)
\* the most chunks of one OCR text
MaxOcrChunks == 8

\* short lines, each different from the others
OcrFreshPool == <<<<"N","a","m","e">>, <<"Q","t","y">>, <<"a">>, <<"b">>, <<"c">>, <<"d">>, <<"e">>>>

\* a line just too long for a header, and one long enough for a title
OcrLongLine == [i \in 1..HeaderLineMax |-> "w"]
OcrTitleLine == [i \in 1..(HeaderLineMax + 1) |-> "t"]

\* six rows of two cells, one cell per line
OcrBody == StrJoin(<<"\n">>, [i \in 1..12 |-> IF i % 2 = 1 THEN <<"x">> ELSE <<"1">>])

FreshUsed == Cardinality({i \in 1..Len(ocr_draft) : \E k \in 1..Len(OcrFreshPool) : ocr_draft[i] = OcrFreshPool[k]})

OcrText == StrJoin(<<"\n">>, ocr_draft)

OcrPage == [page_number |-> 1, tables |-> <<>>, images |-> <<[bbox |-> <<0, 0, 100, 100>>, ocr_text |-> OcrText]>>, layout_boxes |-> <<Box("picture", <<>>, <<10, 10, 90, 90>>, Nothing)>>]

InitOcr == InitAt("draft")

CanDraft == pc = "draft" /\ Len(ocr_draft) < MaxOcrChunks

Draft(chunk) ==
    /\ ocr_draft' = Append(ocr_draft, chunk)
    /\ UNCHANGED <<fields, pc, raw_pages, tables_open, history, call>>

\* the next line is a short line not seen before
OcrFresh ==
    /\ CanDraft
    /\ FreshUsed < Len(OcrFreshPool)
    /\ Draft(OcrFreshPool[FreshUsed + 1])

\* the next chunk repeats the first
OcrRepeat ==
    /\ CanDraft
    /\ ocr_draft # <<>>
    /\ Draft(ocr_draft[1])

OcrLong ==
    /\ CanDraft
    /\ Draft(OcrLongLine)

\* the text begins with a title
OcrTitle ==
    /\ CanDraft
    /\ ocr_draft = <<>>
    /\ Draft(OcrTitleLine)

\* the rows of a table follow, once
OcrRows ==
    /\ CanDraft
    /\ \A i \in 1..Len(ocr_draft) : ocr_draft[i] # OcrBody
    /\ Draft(OcrBody)

\* _run on the document of the one picture
OcrRun ==
    /\ pc = "draft"
    /\ SetSelf(FinalFlush(_process_page(InitFields, OcrPage)))
    /\ raw_pages' = <<OcrPage>>
    /\ pc' = "done"
    /\ UNCHANGED <<tables_open, history, ocr_draft, call>>

NextOcr ==
    \/ OcrFresh
    \/ OcrRepeat
    \/ OcrLong
    \/ OcrTitle
    \/ OcrRows
    \/ OcrRun

SpecOcr == InitOcr /\ [][NextOcr]_vars

(***************************************************************************)
(* A third state machine, for the cell normalizer alone: a raw cell is put *)
(* together piece by piece (arg), then _clean_cell is applied to it and    *)
(* once more to its own result (ret holds the results in order).           *)
(***************************************************************************)
\* pieces are added to a raw cell shorter than this
MaxCellLen == 4

\* the pieces of a raw cell: single characters, and runs of characters
CellChars == {"$", "(", ")", "-", "%", ".", ",", " ", "\n", "a", "0", "5", "8"}
CellRuns == {<<"0","0">>, <<"1","2","3","4","5","6","7">>, <<"\n", ".">>}

\* a piece is added to a cell that is not null
CanType == pc = "cell" /\ arg # None /\ Len(arg) < MaxCellLen

Type(piece) ==
    /\ arg' = arg \o piece
    /\ UNCHANGED <<fields, pc, raw_pages, tables_open, history, ocr_draft, ret>>

CellChar ==
    /\ CanType
    /\ \E c \in CellChars : Type(<<c>>)

CellRun ==
    /\ CanType
    /\ \E run \in CellRuns : Type(run)

\* the cell is null
CellNull ==
    /\ pc = "cell"
    /\ arg = <<>>
    /\ arg' = None
    /\ UNCHANGED <<fields, pc, raw_pages, tables_open, history, ocr_draft, ret>>

\* _clean_cell(val)
Clean ==
    /\ pc = "cell"
    /\ ret' = <<_clean_cell(arg)>>
    /\ pc' = "cleaned"
    /\ UNCHANGED <<fields, raw_pages, tables_open, history, ocr_draft, arg>>

\* _clean_cell on the cell it returned
CleanAgain ==
    /\ pc = "cleaned"
    /\ ret' = Append(ret, _clean_cell(ret[1]))
    /\ pc' = "recleaned"
    /\ UNCHANGED <<fields, raw_pages, tables_open, history, ocr_draft, arg>>

NextCell ==
    \/ CellChar
    \/ CellRun
    \/ CellNull
    \/ Clean
    \/ CleanAgain

SpecCell == InitAt("cell") /\ [][NextCell]_vars

(***************************************************************************)
(* A fourth state machine, for the row classifier alone: a row is put      *)
(* together cell by cell (arg), then _is_summary_row is applied to it (ret *)
(* holds the result).  The cells are cells as the transformer hands them   *)
(* to the classifier: null, or text without whitespace around it.          *)
(***************************************************************************)
\* the most cells of one row
MaxRowLen == 3

\* "total " and then n letters
TotalThen(n) == <<"t","o","t","a","l"," ">> \o [i \in 1..n |-> "w"]

\* the cells of a row: null, plain cells, keywords in upper case, after a
\* hyphen, inside a longer word and before an underscore, and a keyword in a
\* cell of SummaryCellMax characters and in one of a character more
RowCells == {None, <<"x">>, <<"1">>, <<"G","r","a","n","d"," ","T","o","t","a","l">>, <<"T","o","t","a","l"," ","I","n","c","o","m","e"," ","S","t","a","t","e","m","e","n","t"," ","f","o","r"," ","J","a","n","u","a","r","y">>, <<"N","E","T"," ","P","A","Y","A","B","L","E">>, <<"S","u","b","-","t","o","t","a","l">>, <<"T","o","t","a","l","l","y">>, <<"S","u","m","m","a","r","y">>, <<"t","o","t","a","l","_","1">>, TotalThen(SummaryCellMax - 6), TotalThen(SummaryCellMax - 5)}

RowCell ==
    /\ pc = "row"
    /\ Len(arg) < MaxRowLen
    /\ \E cell \in RowCells : arg' = Append(arg, cell)
    /\ UNCHANGED <<fields, pc, raw_pages, tables_open, history, ocr_draft, ret>>

\* _is_summary_row(row)
Classify ==
    /\ pc = "row"
    /\ ret' = <<_is_summary_row(arg)>>
    /\ pc' = "classified"
    /\ UNCHANGED <<fields, raw_pages, tables_open, history, ocr_draft, arg>>

NextRow ==
    \/ RowCell
    \/ Classify

SpecRow == InitAt("row") /\ [][NextRow]_vars

(***************************************************************************)
(* The query layer (src/src/data_extractor.py), a fifth state machine: a   *)
(* Document is constructed over a list of blocks (blocks stands for its    *)
(* _blocks), then queried; arg holds the call and ret its result, a record *)
(* [value] or, for a raised exception, [error, message], the message       *)
(* being its text and the id formatted into it.                            *)
(***************************************************************************)
\* the most blocks of a document queried
MaxBlocks == 3

\* the blocks of the data a Document is constructed over: blocks as the
\* transformer makes them, and one whose title is null
QueryBlocks == {_make_block(<<"S">>, <<>>, "text_block", [text |-> <<"t">>], [int |-> 1]),
                _make_block(None, <<"d">>, "table", [headers |-> <<<<"A">>>>, rows |-> <<<<<<"x">>>>>>, summary_row |-> Nothing], [list |-> <<1, 2>>]),
                _make_block(<<"K">>, <<>>, "table", [key_value |-> DictPut(<<>>, <<"N">>, <<"v">>)], [int |-> 2]),
                [title |-> None, description |-> <<>>, type |-> "image_text", data |-> [text |-> <<"o">>], page |-> [int |-> 3]]}

\* the ids a block is asked for by
QueryIds == -2..(MaxBlocks + 1)

\* a variant of get that counts a negative id from the end of the list
GetFromEnd(bs, block_id) == IF block_id >= Len(bs) \/ block_id < -Len(bs) THEN [error |-> "KeyError", message |-> [text |-> "No block with id", block_id |-> block_id]]
    ELSE [value |-> bs[IF block_id < 0 THEN Len(bs) + block_id + 1 ELSE block_id + 1]]

\* Document.get on the block list bs
get(bs, block_id) == IF block_id < 0 \/ block_id >= Len(bs) THEN [error |-> "KeyError", message |-> [text |-> "No block with id", block_id |-> block_id]]
    ELSE [value |-> bs[block_id + 1]]

\* Document.get_data: the exception of get goes through
get_data(bs, block_id) == IF "error" \in DOMAIN get(bs, block_id) THEN get(bs, block_id) ELSE [value |-> get(bs, block_id).value.data]

\* Document.blocks
ListOf(bs) == [value |-> [i \in 1..Len(bs) |-> <<i - 1, IF Truthy(bs[i].title) THEN bs[i].title ELSE <<>>, bs[i].type>>]]

\* the data grows by a block
AddBlock ==
    /\ pc = "data"
    /\ Len(blocks) < MaxBlocks
    /\ \E b \in QueryBlocks : blocks' = Append(blocks, b)
    /\ UNCHANGED <<heading, text_buf, text_page, pending_table, last_img_tbl_headers, pg, page_tables, page_images, table_idx, pc, raw_pages, tables_open, history, ocr_draft, call>>

\* Document(data)
NewDocument ==
    /\ pc = "data"
    /\ pc' = "doc"
    /\ UNCHANGED <<fields, raw_pages, tables_open, history, ocr_draft, call>>

\* a query: the call and its result are recorded, nothing else changes
Query(op, block_id, result) ==
    /\ pc = "doc"
    /\ arg' = [op |-> op, id |-> block_id]
    /\ ret' = <<result>>
    /\ UNCHANGED <<fields, pc, raw_pages, tables_open, history, ocr_draft>>

Get == \E block_id \in QueryIds : Query("get", block_id, get(blocks, block_id))

GetData == \E block_id \in QueryIds : Query("get_data", block_id, get_data(blocks, block_id))

ListBlocks == Query("blocks", 0, ListOf(blocks))

NextQuery ==
    \/ AddBlock
    \/ NewDocument
    \/ Get
    \/ GetData
    \/ ListBlocks

SpecQuery == InitAt("data") /\ [][NextQuery]_vars

(***************************************************************************)
(* The key-value machine: a resolved row set is put together cell by cell, *)
(* then tested as _on_table tests it and, when the test holds, extracted.  *)
(* The cells are cells as _resolve_table_data leaves them: null, or text   *)
(* without surrounding whitespace.                                         *)
(***************************************************************************)
MaxKvCells == 6
MaxKvCols == 3

KvCells == {None, <<"N","a","m","e",":">>, <<"N","a","m","e"," ",":">>, <<"x">>, <<"1">>}

\* the rows have one length and one more cell is within the bound
CanAddCell ==
    /\ pc = "kv"
    /\ Len(arg) * (IF arg = <<>> THEN 0 ELSE Len(arg[1])) < MaxKvCells

\* one more column in the first row
KvColumn ==
    /\ CanAddCell
    /\ Len(arg) <= 1
    /\ arg # <<>> => Len(arg[1]) < MaxKvCols
    /\ \E cell \in KvCells : arg' = <<(IF arg = <<>> THEN <<>> ELSE arg[1]) \o <<cell>>>>
    /\ UNCHANGED <<fields, pc, raw_pages, tables_open, history, ocr_draft, ret>>

\* one more row of the first row's length
KvRow ==
    /\ CanAddCell
    /\ arg # <<>>
    /\ Len(arg) * Len(arg[1]) + Len(arg[1]) <= MaxKvCells
    /\ \E row \in [1..Len(arg[1]) -> KvCells] : arg' = Append(arg, row)
    /\ UNCHANGED <<fields, pc, raw_pages, tables_open, history, ocr_draft, ret>>

\* the test of _on_table
IsKeyValue ==
    /\ pc = "kv"
    /\ pc' = "kv_tested"
    /\ ret' = <<_is_key_value_table(arg)>>
    /\ UNCHANGED <<fields, raw_pages, tables_open, history, ocr_draft, arg>>

\* the extraction of _on_table, for a row set that passed the test
ExtractKeyValues ==
    /\ pc = "kv_tested"
    /\ ret[1]
    /\ pc' = "kv_extracted"
    /\ ret' = Append(ret, _extract_key_values(arg))
    /\ UNCHANGED <<fields, raw_pages, tables_open, history, ocr_draft, arg>>

NextKv ==
    \/ KvColumn
    \/ KvRow
    \/ IsKeyValue
    \/ ExtractKeyValues

SpecKv == InitAt("kv") /\ [][NextKv]_vars

(***************************************************************************)
(* The picture machine: a page of two pictures.  The first picture's OCR   *)
(* text is a table of three headers; the second picture's text is put      *)
(* together line by line, and is a table of its own or continues the       *)
(* first.                                                                  *)
(***************************************************************************)
MaxImgLines == 6

\* the next line of the second picture's text: a line that starts a row, one
\* that does not, one that starts a summary row
ImgLine ==
    /\ pc = "img"
    /\ Len(ocr_draft) < MaxImgLines
    /\ \E line \in {<<"x">>, <<"1">>, <<"T","o","t","a","l">>} : Draft(line)

ImgPage == [page_number |-> 1, tables |-> <<>>, images |-> <<[bbox |-> <<0, 0, 100, 100>>, ocr_text |-> <<"N","a","m","e","\n","Q","t","y","\n","P","r","i","c","e","\n","x","\n","1","\n","2","\n","x","\n","1","\n","2">>], [bbox |-> <<200, 0, 300, 100>>, ocr_text |-> OcrText]>>, layout_boxes |-> <<Box("picture", <<>>, <<10, 10, 90, 90>>, Nothing), Box("picture", <<>>, <<210, 10, 290, 90>>, Nothing)>>]

\* _run on the document of the two pictures
ImgRun ==
    /\ pc = "img"
    /\ SetSelf(FinalFlush(_process_page(InitFields, ImgPage)))
    /\ raw_pages' = <<ImgPage>>
    /\ pc' = "img_done"
    /\ UNCHANGED <<tables_open, history, ocr_draft, call>>

NextImg ==
    \/ ImgLine
    \/ ImgRun

SpecImg == InitAt("img") /\ [][NextImg]_vars

\* the run agrees with _run on the document read
RunIsTransform == pc = "done" => blocks = _run(raw_pages)

(***************************************************************************)
(* Reading a step: the box a step has taken, the fields it was taken from  *)
(* and the branch of _on_table it took.                                    *)
(***************************************************************************)
LastBoxOf(pages) == pages[Len(pages)].layout_boxes[Len(pages[Len(pages)].layout_boxes)]

\* the step is the handling of one box
StepIsBox == pc = "run" /\ pc' = "run" /\ Len(raw_pages') = Len(raw_pages) /\ CountBoxes(raw_pages') = NBoxes + 1

StepBox == LastBoxOf(raw_pages')

\* the fields the box was handled from: the page's tables as the code found them
PreSelf == [Self EXCEPT !.page_tables = raw_pages'[Len(raw_pages')].tables]

StepOutcome == IF StepBox.boxclass = "table" THEN TableOutcome(PreSelf, StepBox) ELSE "none"

\* the step is the end of _run
StepIsEnd == pc = "run" /\ pc' = "done"

\* the blocks so far stay as they are
BlocksKept == Len(blocks') >= Len(blocks) /\ \A i \in 1..Len(blocks) : blocks'[i] = blocks[i]

\* the number of blocks flushed from a pending table
PendingCount(bs) == Cardinality({i \in 1..Len(bs) : IsPendingBlock(bs[i])})

\* the block b carries what the pending table pt has accumulated
FlushedFrom(b, pt) == IsPendingBlock(b) /\ b.data.headers = pt.headers /\ b.data.rows = pt.rows /\ b.title = (IF Truthy(pt.title) THEN pt.title ELSE <<>>)

\* a sequence without its repetitions, in first-seen order
RECURSIVE Dedup(_)
Dedup(q) == IF q = <<>> THEN <<>> ELSE LET d == Dedup(SubSeq(q, 1, Len(q) - 1)) IN IF \E i \in 1..Len(d) : d[i] = q[Len(q)] THEN d ELSE Append(d, q[Len(q)])

PageFieldOf(p) == IF Len(p) = 1 THEN [int |-> p[1]] ELSE [list |-> p]

(***************************************************************************)
(* The claims.                                                             *)
(***************************************************************************)
\* C1: the blocks returned are in encounter order: a block whose first
\* contributing box comes earlier in the document stands earlier in the list.
C1_EncounterOrder == pc = "done" => /\ Len(prov) = Len(blocks)
                                    /\ \A i, j \in 1..Len(prov) : i < j => prov[i].src < prov[j].src

\* C2: in every table block with headers/rows/summary_row data, no row equals
\* the block's headers and no row is one the summary classifier accepts (the
\* block has one summary_row field, so at most one summary row).
C2_RowsExcludeHeaderAndSummary == \A i \in 1..Len(blocks) : IsPendingBlock(blocks[i]) =>
    \A r \in 1..Len(blocks[i].data.rows) : /\ blocks[i].data.rows[r] # blocks[i].data.headers
                                           /\ ~_is_summary_row(blocks[i].data.rows[r])

\* C3: the page of a table block flushed from a pending table is the list of
\* the pages of the table boxes folded into it, first seen first and without
\* repetition: a number when the list has one element, else the list.
C3_PageField == /\ Len(prov) = Len(blocks)
                /\ \A i \in 1..Len(blocks) : IsPendingBlock(blocks[i]) => blocks[i].page = PageFieldOf(Dedup(prov[i].pages))

\* a table block that spans pages 1 and 3 has been emitted
C3_Witness == \E i \in 1..Len(blocks) : IsPendingBlock(blocks[i]) /\ blocks[i].page = [list |-> <<1, 3>>] /\ Len(prov[i].pages) = 2

\* C4: a table box that resolves to a key-value table emits its block while it
\* is handled, after the pending table's block if there is one, leaves no
\* pending table, and the block never changes afterwards.
C4_KeyValueImmediate == [][/\ (StepIsBox /\ StepOutcome = "key_value") =>
                               /\ pending_table' = Nothing
                               /\ BlocksKept
                               /\ Len(blocks') = Len(blocks) + (IF pending_table # Nothing THEN 2 ELSE 1)
                               /\ IsKeyValueBlock(blocks'[Len(blocks')])
                               /\ pending_table # Nothing => FlushedFrom(blocks'[Len(blocks) + 1], pending_table[1])
                           /\ \A i \in 1..Len(blocks) : IsKeyValueBlock(blocks[i]) => (Len(blocks') >= i /\ blocks'[i] = blocks[i])]_vars

\* a key-value block stands right after the block of the table pending before it
C4_Witness == \E i \in 1..(Len(blocks) - 1) : IsPendingBlock(blocks[i]) /\ IsKeyValueBlock(blocks[i + 1])

\* the boxes that end a pending table
StepFlushes == StepIsBox /\ (StepBox.boxclass \in {"section-header", "header", "picture"} \/ StepOutcome \in {"key_value", "new"})

\* C5: a pending table becomes exactly one table block, at the first heading
\* box, picture box, key-value or non-mergeable table box after it or at the
\* end of the document, and not before; at the end no pending table and no
\* buffered text are left.
C5_PendingLifecycle == [][/\ (pending_table # Nothing /\ StepFlushes) =>
                              /\ BlocksKept
                              /\ PendingCount(blocks') = PendingCount(blocks) + 1
                              /\ \E k \in (Len(blocks) + 1)..Len(blocks') : FlushedFrom(blocks'[k], pending_table[1])
                              /\ pending_table' # pending_table
                          /\ (pending_table # Nothing /\ pc' = "run" /\ ~StepFlushes) =>
                              /\ pending_table' # Nothing
                              /\ PendingCount(blocks') = PendingCount(blocks)
                          /\ pending_table = Nothing => PendingCount(blocks') = PendingCount(blocks)
                          /\ StepIsEnd =>
                              /\ BlocksKept
                              /\ pending_table' = Nothing
                              /\ text_buf' = <<>>
                              /\ PendingCount(blocks') = PendingCount(blocks) + (IF pending_table # Nothing THEN 1 ELSE 0)
                              /\ pending_table # Nothing => FlushedFrom(blocks'[Len(blocks')], pending_table[1])]_vars

\* the run has ended with two tables flushed, one by a table that could not
\* be merged and one by the end of the document
C5_Witness == pc = "done" /\ PendingCount(blocks) = 2 /\ Len(blocks) = 2 /\ NBoxes = 2

\* the rows of a resolved table that are neither its header row nor a summary row
PlainRows(res) == SelectSeq(res.all_rows, LAMBDA r : r # res.headers /\ ~_is_summary_row(r))

\* the summary rows among the rows of a resolved table
SummaryRows(res) == SelectSeq(res.all_rows, LAMBDA r : r # res.headers /\ _is_summary_row(r))

\* the table the k-th box of page p resolves to when it is the page's first table box
FirstTableOf(page, k) == _resolve_table_data(StartPage(InitFields, page), page.layout_boxes[k])

IsTable(res) == res.tab # Nothing /\ ~_is_key_value_table(res.all_rows)

\* a one-page document: a heading box, a text box with text, a table box
Doc6 == /\ Len(raw_pages) = 1
        /\ Len(raw_pages[1].layout_boxes) = 3
        /\ raw_pages[1].layout_boxes[1].boxclass \in {"section-header", "header"}
        /\ raw_pages[1].layout_boxes[2].boxclass \in {"text", "list-item"}
        /\ StrStrip(raw_pages[1].layout_boxes[2].text) # <<>>
        /\ raw_pages[1].layout_boxes[3].boxclass = "table"
        /\ IsTable(FirstTableOf(raw_pages[1], 3))

\* the one table block of such a document, but for its title
Doc6Block(b, res) == /\ b.type = "table"
                     /\ b.description = StrStrip(raw_pages[1].layout_boxes[2].text)
                     /\ IsPendingBlock(b)
                     /\ b.data.headers = res.headers
                     /\ b.data.rows = PlainRows(res)
                     /\ SummaryRows(res) # <<>> => b.data.summary_row = Some(SummaryRows(res)[Len(SummaryRows(res))])
                     /\ b.page = [int |-> raw_pages[1].page_number]

Doc6Heading == StrStrip(raw_pages[1].layout_boxes[1].text)

\* C6 as stated: a heading box, a text box and a table box on one page give
\* exactly one block, a table whose title is the heading box's text, whose
\* description is the text, with the table's headers, data rows and summary
\* row, and the page as a number.
C6_HeadingTextTable == (pc = "done" /\ Doc6) => /\ Len(blocks) = 1
                                               /\ Doc6Block(blocks[1], FirstTableOf(raw_pages[1], 3))
                                               /\ blocks[1].title = Doc6Heading

\* C6 amended: the same when the heading box has text, the title being the
\* last line of that text.
C6_HeadingTextTableAmended == (pc = "done" /\ Doc6 /\ Doc6Heading # <<>>) =>
    /\ Len(blocks) = 1
    /\ Doc6Block(blocks[1], FirstTableOf(raw_pages[1], 3))
    /\ blocks[1].title = (IF HasNewline(Doc6Heading) THEN StrStrip(SplitLines(Doc6Heading)[Len(SplitLines(Doc6Heading))]) ELSE Doc6Heading)

\* the scenario of the specification has run: "Summary", "See below.", the table A/B
C6_Witness == /\ pc = "done"
              /\ Doc6
              /\ blocks = <<[title |-> <<"S","u","m","m","a","r","y">>, description |-> <<"S","e","e"," ","b","e","l","o","w",".">>, type |-> "table",
                            data |-> [headers |-> <<<<"A">>, <<"B">>>>, rows |-> <<<<<<"x">>, <<"1">>>>>>, summary_row |-> Some(<<<<"T","o","t","a","l">>, <<"1">>>>)],
                            page |-> [int |-> 1]]>>

\* the table box of the step resolves to a table whose headers are those the
\* pending table started with
StepRes == _resolve_table_data(PreSelf, StepBox)

StepMatchesPending == /\ StepIsBox
                      /\ StepBox.boxclass = "table"
                      /\ pending_table # Nothing
                      /\ IsTable(StepRes)
                      /\ StepRes.headers = pending_table[1]._raw_headers

\* two pages with consecutive numbers, each one table box, the tables with equal headers
Doc7 == /\ Len(raw_pages) = 2
        /\ raw_pages[2].page_number = raw_pages[1].page_number + 1
        /\ \A p \in 1..2 : /\ Len(raw_pages[p].layout_boxes) = 1
                           /\ raw_pages[p].layout_boxes[1].boxclass = "table"
                           /\ IsTable(FirstTableOf(raw_pages[p], 1))
        /\ FirstTableOf(raw_pages[1], 1).headers = FirstTableOf(raw_pages[2], 1).headers

\* C7: a table box whose headers equal the pending table's original headers is
\* merged whatever its page: its rows other than the header row are appended,
\* in order, after the rows accumulated.  Two such tables on consecutive pages
\* give one table block with both pages as its page and the rows of the first
\* followed by the rows of the second.
C7_ExactHeaderMerge == [][/\ StepMatchesPending =>
                              /\ blocks' = blocks
                              /\ pending_table' # Nothing
                              /\ pending_table'[1].headers = pending_table[1].headers
                              /\ pending_table'[1].rows = pending_table[1].rows \o PlainRows(StepRes)
                              /\ pending_table'[1].page = Dedup(Append(pending_table[1].page, pg))
                          /\ (StepIsEnd /\ Doc7) =>
                              /\ Len(blocks') = 1
                              /\ IsPendingBlock(blocks'[1])
                              /\ blocks'[1].page = [list |-> <<raw_pages[1].page_number, raw_pages[2].page_number>>]
                              /\ blocks'[1].data.rows = PlainRows(FirstTableOf(raw_pages[1], 1)) \o PlainRows(FirstTableOf(raw_pages[2], 1))]_vars

\* a table of page 3 has been merged into the table of page 1, rows of both
C7_Witness == /\ pending_table # Nothing
              /\ pending_table[1].page = <<1, 3>>
              /\ pending_table[1].rows = <<<<<<"x">>, <<"1">>>>, <<<<"y">>, <<"$","2",".","5","0">>>>>>

\* the b-th box of the page is a table box with no table left for it and no layout table
Unresolvable(page, b) == /\ page.layout_boxes[b].boxclass = "table"
                         /\ page.layout_boxes[b].layout_table = Nothing
                         /\ Cardinality({k \in 1..(b - 1) : page.layout_boxes[k].boxclass = "table"}) >= Len(page.tables)

\* the document without the b-th box of its p-th page
WithoutBox(pages, p, b) == [pages EXCEPT ![p] = [@ EXCEPT !.layout_boxes = SubSeq(@, 1, b - 1) \o SubSeq(@, b + 1, Len(@))]]

\* C8: a table box with no machine-detected table left on its page and no
\* layout table is ignored: the blocks returned are those of the same
\* document without the box.
C8_UnresolvableBoxIgnored == pc = "done" => \A p \in 1..Len(raw_pages) : \A b \in 1..Len(raw_pages[p].layout_boxes) :
    Unresolvable(raw_pages[p], b) => blocks = _run(WithoutBox(raw_pages, p, b))

\* C9: a picture whose OCR text is not detected as a table becomes an
\* image_table only if the picture before it produced an image_table; after a
\* picture that produced image_text, or with no picture before, it becomes
\* image_text.
C9_ContinuationNeedsImageTable == /\ Len(prov) = Len(blocks)
                                  /\ \A i \in 1..Len(blocks) : (IsPictureBlock(blocks[i]) /\ ~prov[i].detected) =>
                                         /\ blocks[i].type = "image_table" => prov[i].prev_pic = "image_table"
                                         /\ prov[i].prev_pic \in {"image_text", "none"} => blocks[i].type = "image_text"

\* a header line: short and found once among the lines
IsShort(line) == Len(line) < HeaderLineMax

FoundOnce(lines, line) == Cardinality({i \in 1..Len(lines) : lines[i] = line}) = 1

HeaderLike(lines, i) == IsShort(lines[i]) /\ FoundOnce(lines, lines[i])

\* the one block of the picture is an image_table with these headers
OneImageTable(headers) == Len(blocks) = 1 /\ blocks[1].type = "image_table" /\ blocks[1].data.headers = headers

\* the one block of the picture is an image_text with the OCR text as it came
OneImageText == Len(blocks) = 1 /\ blocks[1].type = "image_text" /\ blocks[1].data = [text |-> OcrText]

\* the headers are n lines from line st + 1 on, and the collection stopped for the reason allowed
HeadersStopAt(lines, st, n, capped) == /\ blocks[1].data.headers = SubSeq(lines, st + 1, st + n)
                                       /\ \A i \in (st + 1)..(st + n) : HeaderLike(lines, i)
                                       /\ st + n < Len(lines) => (~HeaderLike(lines, st + n + 1) \/ (capped /\ n = MaxHeaderScan))

\* C10 as stated, for the lines of the OCR text of a lone picture
C10Stated(lines) == /\ (Len(lines) >= 2 /\ IsShort(lines[1]) /\ IsShort(lines[2]) /\ lines[1] # lines[2]) =>
                        IF Len(lines) >= 6 THEN OneImageTable(<<lines[1], lines[2]>>) ELSE OneImageText
                    /\ (Len(blocks) = 1 /\ blocks[1].type = "image_table") => HeadersStopAt(lines, 0, Len(blocks[1].data.headers), FALSE)

C10Amended(lines) == /\ (Len(lines) >= 6 /\ HeaderLike(lines, 1) /\ HeaderLike(lines, 2) /\ ~HeaderLike(lines, 3)) => OneImageTable(<<lines[1], lines[2]>>)
                     /\ Len(lines) < 6 => OneImageText
                     /\ (Len(blocks) = 1 /\ blocks[1].type = "image_table") =>
                            HeadersStopAt(lines, IF Len(lines[1]) > HeaderLineMax THEN 1 ELSE 0, Len(blocks[1].data.headers), TRUE)

IsDigits(s) == s # None /\ s # <<>> /\ \A i \in 1..Len(s) : s[i] \in DigitChars

\* digits, one newline between the digits, and a final "%"
IsSplitPercent(s) == /\ s # None
                     /\ Len(s) >= 4
                     /\ s[Len(s)] = "%"
                     /\ \E i \in 2..(Len(s) - 2) : s[i] = "\n" /\ IsDigits(SubSeq(s, 1, i - 1)) /\ IsDigits(SubSeq(s, i + 1, Len(s) - 1))

\* the digits of such a string with a point before the last, and "%"
PointBeforeLast(s) == LET d == SelectSeq(s, LAMBDA c : c \in DigitChars) IN SubSeq(d, 1, Len(d) - 1) \o <<".", d[Len(d)], "%">>

\* C11: _clean_cell of digits with a newline between them and a final "%"
\* returns the digits with a decimal point before the last digit and "%";
\* of digits followed by "%" with no newline it returns the input unchanged.
C11_PercentSplit == (pc \in {"cleaned", "recleaned"}) =>
    /\ IsSplitPercent(arg) => ret[1] = PointBeforeLast(arg)
    /\ (arg # None /\ Len(arg) >= 2 /\ arg[Len(arg)] = "%" /\ IsDigits(SubSeq(arg, 1, Len(arg) - 1))) => ret[1] = arg

\* C13: _clean_cell applied to a cell it returned returns that cell.
C13_Idempotent == pc = "recleaned" => ret[2] = ret[1]

\* a negative amount has been formatted with commas, and formatted again
C13_Witness == /\ pc = "recleaned"
               /\ arg = <<"$", "-", "1","2","3","4","5","6","7">>
               /\ ret[1] = <<"(", "$", "1","2",",","3","4","5",".","6","7", ")">>

\* kw stands in s as a whole word: no letter, digit or underscore next to it
WholeWord(s, kw) == \E p \in 1..(Len(s) - Len(kw) + 1) :
    /\ SubSeq(s, p, p + Len(kw) - 1) = kw
    /\ p > 1 => ~IsWordChar(s[p - 1])
    /\ p + Len(kw) <= Len(s) => ~IsWordChar(s[p + Len(kw)])

\* a non-empty cell that contains a keyword as a whole word, in any case
KeywordCell(cell) == cell # None /\ cell # <<>> /\ \E kw \in SUMMARY_KEYWORDS : WholeWord(StrLower(cell), kw)

\* the cells of the two examples
GrandTotalCell == <<"G","r","a","n","d"," ","T","o","t","a","l">>
JanuaryCell == <<"T","o","t","a","l"," ","I","n","c","o","m","e"," ","S","t","a","t","e","m","e","n","t"," ","f","o","r"," ","J","a","n","u","a","r","y">>

InRow(row, cell) == \E i \in 1..Len(row) : row[i] = cell

\* a row is a summary row exactly when a keyword cell of at most 60 characters is in it
SummaryRule == ret[1] = (\E i \in 1..Len(arg) : KeywordCell(arg[i]) /\ Len(arg[i]) <= 60)

\* C12 as stated: a row with the cell "Grand Total" is a summary row; a row
\* whose only keyword-bearing cell is "Total Income Statement for January" is
\* not; a row is a summary row exactly when some non-empty cell of at most 60
\* characters contains a keyword as a whole word, case-insensitively.
C12_SummaryRow == pc = "classified" =>
    /\ InRow(arg, GrandTotalCell) => ret[1] = TRUE
    /\ (InRow(arg, JanuaryCell) /\ \A i \in 1..Len(arg) : KeywordCell(arg[i]) => arg[i] = JanuaryCell) => ret[1] = FALSE
    /\ SummaryRule

\* C12 amended: the same, but a row with the cell "Total Income Statement
\* for January" (34 characters) is a summary row; a row whose only
\* keyword-bearing cells are longer than 60 characters is not.
C12_SummaryRowAmended == pc = "classified" =>
    /\ InRow(arg, GrandTotalCell) => ret[1] = TRUE
    /\ InRow(arg, JanuaryCell) => ret[1] = TRUE
    /\ (\A i \in 1..Len(arg) : KeywordCell(arg[i]) => Len(arg[i]) > 60) => ret[1] = FALSE
    /\ SummaryRule

\* a row of a long keyword cell, a null cell and "Grand Total" has been classified
C12_Witness == /\ pc = "classified"
               /\ arg = <<TotalThen(SummaryCellMax - 5), None, GrandTotalCell>>
               /\ ret = <<TRUE>>

\* the result of the query just made
Answer == ret'[1]

\* the query just made is this one
Asked(op) == pc = "doc" /\ arg'.op = op

\* the result is a not-found error that names the id
NotFound(r, block_id) == /\ DOMAIN r = {"error", "message"}
                         /\ r.error = "KeyError"
                         /\ r.message.block_id = block_id

\* C14: get(id) returns the block at position id, unchanged, for every id
\* from 0 to the number of blocks less one, and fails with a not-found error
\* that names the id for every other integer id; blocks() lists one (index,
\* title, type) triple per block in output order; no query changes the
\* block list.
C14_QueryLayer == [][pc = "doc" =>
    /\ blocks' = blocks
    /\ Asked("get") => IF 0 <= arg'.id /\ arg'.id < Len(blocks) THEN Answer = [value |-> blocks[arg'.id + 1]] ELSE NotFound(Answer, arg'.id)
    /\ Asked("blocks") =>
          /\ Len(Answer.value) = Len(blocks)
          /\ \A i \in 1..Len(blocks) : /\ Answer.value[i][1] = i - 1
                                       /\ Answer.value[i][2] = (IF blocks[i].title = None THEN <<>> ELSE blocks[i].title)
                                       /\ Answer.value[i][3] = blocks[i].type]_vars

\* the last of three blocks has been returned by get
C14_Witness == /\ pc = "doc"
               /\ Len(blocks) = 3
               /\ arg = [op |-> "get", id |-> 2]
               /\ ret = <<[value |-> blocks[3]]>>

\* the table box of the step resolves to a table whose headers are not those
\* the pending table started with
StepDiffersFromPending == /\ StepIsBox
                          /\ StepBox.boxclass = "table"
                          /\ pending_table # Nothing
                          /\ IsTable(StepRes)
                          /\ StepRes.headers # pending_table[1]._raw_headers

\* the column-count rule: as many headers, and the page is the pending
\* table's last page or the one after it
ColumnCountRule(pt, headers, page) == Len(headers) = Len(pt._raw_headers) /\ page \in {pt.page[Len(pt.page)], pt.page[Len(pt.page)] + 1}

\* the rows of a resolved table that are no summary rows, its header row among them
AllButSummary(res) == SelectSeq(res.all_rows, LAMBDA r : ~_is_summary_row(r))

\* the summary rows among all the rows of a resolved table
AllSummary(res) == SelectSeq(res.all_rows, _is_summary_row)

\* two pages, each one table box, the tables with different headers
Doc15 == /\ Len(raw_pages) = 2
         /\ \A p \in 1..2 : /\ Len(raw_pages[p].layout_boxes) = 1
                            /\ raw_pages[p].layout_boxes[1].boxclass = "table"
                            /\ IsTable(FirstTableOf(raw_pages[p], 1))
         /\ FirstTableOf(raw_pages[1], 1).headers # FirstTableOf(raw_pages[2], 1).headers

\* C15: a table box whose headers differ from the pending table's original
\* headers is merged exactly when the header lists are as long and the box's
\* page is the pending table's last page or the page after it; then all its
\* rows, a row equal to its own header too, are folded in under the pending
\* table's headers.  Otherwise the pending table is flushed as a block and a
\* new pending table is started, and the two tables end as two blocks in
\* that order.
C15_ColumnCountContinuation == [][
    /\ StepDiffersFromPending =>
          IF ColumnCountRule(pending_table[1], StepRes.headers, pg)
          THEN /\ blocks' = blocks
               /\ pending_table' # Nothing
               /\ pending_table'[1].headers = pending_table[1].headers
               /\ pending_table'[1].rows = pending_table[1].rows \o AllButSummary(StepRes)
               /\ pending_table'[1].summary_row = (IF AllSummary(StepRes) # <<>> THEN Some(AllSummary(StepRes)[Len(AllSummary(StepRes))]) ELSE pending_table[1].summary_row)
          ELSE /\ BlocksKept
               /\ Len(blocks') = Len(blocks) + 1
               /\ FlushedFrom(blocks'[Len(blocks')], pending_table[1])
               /\ pending_table' # Nothing
               /\ pending_table'[1].headers = StepRes.headers
               /\ pending_table'[1].rows = PlainRows(StepRes)
               /\ pending_table'[1].page = <<pg>>
    /\ (StepIsEnd /\ Doc15) =>
          IF Len(FirstTableOf(raw_pages[1], 1).headers) = Len(FirstTableOf(raw_pages[2], 1).headers) /\ raw_pages[2].page_number = raw_pages[1].page_number + 1
          THEN Len(blocks') = 1 /\ blocks'[1].data.headers = FirstTableOf(raw_pages[1], 1).headers
          ELSE /\ Len(blocks') = 2
               /\ \A p \in 1..2 : /\ IsPendingBlock(blocks'[p])
                                  /\ blocks'[p].data.headers = FirstTableOf(raw_pages[p], 1).headers
                                  /\ blocks'[p].page = [int |-> raw_pages[p].page_number]]_vars

\* the table A/B has been folded into the table C/D pending on the same
\* page, its header row too
C15_Witness == /\ pending_table # Nothing
               /\ pending_table[1].headers = <<<<"C">>, <<"D">>>>
               /\ pending_table[1].page = <<1>>
               /\ pending_table[1].rows = <<<<<<"A">>, <<"B">>>>, <<<<"z">>, <<"3">>>>, <<<<"A">>, <<"B">>>>, <<<<"x">>, <<"1">>>>>>
               /\ pending_table[1].summary_row = Some(<<<<"T","o","t","a","l">>, <<"1">>>>)

\* the number of times the row r stands in the sequence q
Times(q, r) == Cardinality({k \in 1..Len(q) : q[k] = r})

\* the rows a block holds: its rows and, when it has one, its summary row
HeldRows(b) == b.data.rows \o b.data.summary_row

\* the block holds rows
HoldsRows(b) == IsPendingBlock(b) \/ b.type = "image_table"

\* C16: in every table or image_table block each data row folded into it,
\* the non-header rows of every table that contributed and the row groups of
\* the OCR text, stands in rows or is the summary_row, as often as it was
\* folded in: of several summary rows one is the summary_row and the others
\* stand in rows.
C16_NoRowDropped == /\ Len(prov) = Len(blocks)
                    /\ \A i \in 1..Len(blocks) : HoldsRows(blocks[i]) =>
                           \A k \in 1..Len(prov[i].rows) : Times(HeldRows(blocks[i]), prov[i].rows[k]) >= Times(prov[i].rows, prov[i].rows[k])

\* the last text of the sequence that is a non-empty text, null when none is
StoredTrailing(texts) == IF \E k \in 1..Len(texts) : Truthy(texts[k]) THEN texts[CHOOSE k \in 1..Len(texts) : Truthy(texts[k]) /\ \A j \in (k + 1)..Len(texts) : ~Truthy(texts[j])] ELSE None

\* the lines from the first one that contains "total" on, stripped, the blank
\* ones after the first left out
FromTotalLine(lines) == LET i == CHOOSE k \in 1..Len(lines) : Contains(StrLower(lines[k]), <<"t","o","t","a","l">>) /\ \A j \in 1..(k - 1) : ~Contains(StrLower(lines[j]), <<"t","o","t","a","l">>)
                            later == SelectSeq(SubSeq(lines, i + 1, Len(lines)), LAMBDA ln : StrStrip(ln) # <<>>)
                        IN  <<StrStrip(lines[i])>> \o [k \in 1..Len(later) |-> StrStrip(later[k])]

\* the summary row the trailing text stands for: null without a line that
\* contains "total" or without a non-empty line after it
TotalsOf(text) == IF text = None THEN Nothing
                  ELSE IF \A k \in 1..Len(SplitLines(text)) : ~Contains(StrLower(SplitLines(text)[k]), <<"t","o","t","a","l">>) THEN Nothing
                  ELSE IF Len(FromTotalLine(SplitLines(text))) < 2 THEN Nothing
                  ELSE Some(FromTotalLine(SplitLines(text)))

\* C17: the summary_row of the block flushed from a pending table is the
\* pending table's summary row when it has one from its rows, whatever the
\* trailing text; otherwise it is what the stored trailing text stands for
\* (the text of the last table folded in that carried any): its first line
\* containing "total" followed by every later non-empty line, or null.
C17_TrailingTotalsFallback == [][pending_table # Nothing =>
    \A k \in (Len(blocks) + 1)..Len(blocks') : IsPendingBlock(blocks'[k]) =>
        blocks'[k].data.summary_row = (IF pending_table[1].summary_row # Nothing THEN pending_table[1].summary_row ELSE TotalsOf(StoredTrailing(pend_prov.trailing)))]_vars

\* a table without a summary row has been flushed with the totals of the
\* trailing text of the second of the two tables folded into it
C17_Witness == \E i \in 1..Len(blocks) : /\ IsPendingBlock(blocks[i])
                                         /\ blocks[i].data.summary_row = Some(<<<<"T","O","T","A","L">>, <<"7">>, <<"8">>>>)
                                         /\ Len(prov[i].trailing) = 2
                                         /\ prov[i].trailing[1] = <<"T","o","t","a","l",":","\n"," ">>

\* the page of the step, and how many of its boxes are table boxes, the box
\* of the step among them
StepPage == raw_pages'[Len(raw_pages')]

StepTableNo == Cardinality({b \in 1..Len(StepPage.layout_boxes) : StepPage.layout_boxes[b].boxclass = "table"})

\* the table data of a machine-detected table, and of a layout table
DataOfTable(s, tab) == [s |-> s, headers |-> [h \in 1..Len(tab.header_names) |-> _clean_cell(tab.header_names[h])], all_rows |-> CleanRows(tab.cells), tab |-> Some(tab)]

DataOfLayout(s, box) == IF box.layout_table = Nothing THEN [s |-> s, headers |-> <<>>, all_rows |-> <<>>, tab |-> Nothing] ELSE ResolveLayout(s, box.layout_table[1], CleanRows(box.layout_table[1].cells))

\* the fields after a table box handled with the page's k-th table when the
\* page has one, else with the box's layout table
AfterTableNo(s, page, k, box) == OnTableData(s, IF Len(page.tables) >= k THEN DataOfTable(s, page.tables[k]) ELSE DataOfLayout(s, box))

\* C18: the k-th table box of a page, all its table boxes counted, uses the
\* page's k-th machine-detected table when the page has k tables and else
\* its own layout table; the count starts again on every page, so no table
\* is used twice or for a box of another page.
C18_TableConsumption == [][(StepIsBox /\ StepBox.boxclass = "table") =>
    /\ blocks' = AfterTableNo(ResetImgHeaders(PreSelf), StepPage, StepTableNo, StepBox).blocks
    /\ pending_table' = AfterTableNo(ResetImgHeaders(PreSelf), StepPage, StepTableNo, StepBox).pending_table
    /\ text_buf' = AfterTableNo(ResetImgHeaders(PreSelf), StepPage, StepTableNo, StepBox).text_buf
    /\ table_idx' = (IF Len(StepPage.tables) >= StepTableNo THEN StepTableNo ELSE Len(StepPage.tables))]_vars

\* the one table box of the second page has taken the second page's one
\* table, after the one table box of the first page took the first page's
C18_Witness == /\ Len(raw_pages) = 2
               /\ \A p \in 1..2 : Len(raw_pages[p].tables) = 1 /\ Len(raw_pages[p].layout_boxes) = 1
               /\ raw_pages[1].tables[1].cells[2] = <<<<"x">>, <<"1">>>>
               /\ raw_pages[2].tables[1].cells[2] = <<<<"y">>, <<"$","2","5","0">>>>
               /\ table_idx = 1
               /\ pending_table # Nothing
               /\ pending_table[1].rows = <<<<<<"x">>, <<"1">>>>, <<<<"y">>, <<"$","2",".","5","0">>>>>>

\* the texts of the text and list-item boxes of the document that have text, in order
RECURSIVE BoxTexts(_)
BoxTexts(boxes) == IF boxes = <<>> THEN <<>>
                   ELSE (IF boxes[1].boxclass \in {"text", "list-item"} /\ StrStrip(boxes[1].text) # <<>> THEN <<StrStrip(boxes[1].text)>> ELSE <<>>) \o BoxTexts(Tail(boxes))

RECURSIVE DocTexts(_)
DocTexts(pages) == IF pages = <<>> THEN <<>> ELSE BoxTexts(pages[1].layout_boxes) \o DocTexts(Tail(pages))

\* how often the text stands in the block: as a line of a text_block's data,
\* or as the title or a line of the description of a table or key-value block
TimesInBlock(b, txt) == IF b.type = "text_block" THEN Times(SplitLines(b.data.text), txt)
                        ELSE IF b.type = "table" THEN (IF b.title = txt THEN 1 ELSE 0) + Times(SplitLines(b.description), txt)
                        ELSE 0

RECURSIVE TimesInBlocks(_, _)
TimesInBlocks(bs, txt) == IF bs = <<>> THEN 0 ELSE TimesInBlock(bs[1], txt) + TimesInBlocks(Tail(bs), txt)

\* C19: the text of every text or list-item box with text stands in the
\* output exactly once, in a text_block's data or as the title or the
\* description of a table or key-value block: also the text buffered between
\* a pending table and a table box merged into it.
C19_NoTextLost == pc = "done" => \A k \in 1..Len(DocTexts(raw_pages)) :
    TimesInBlocks(blocks, DocTexts(raw_pages)[k]) = Times(DocTexts(raw_pages), DocTexts(raw_pages)[k])

\* the step handles a heading box
StepIsHeading == StepIsBox /\ StepBox.boxclass \in {"section-header", "header"}

\* the text after the last newline of the text, stripped; the text when it has no newline
LastLineOf(text) == IF \A i \in 1..Len(text) : text[i] # "\n" THEN text
                    ELSE StrStrip(SubSeq(text, (CHOOSE i \in 1..Len(text) : text[i] = "\n" /\ \A j \in (i + 1)..Len(text) : text[j] # "\n") + 1, Len(text)))

\* the text_block of the text buffered under the heading now in effect
BufferedBlock == [title |-> IF heading = None THEN <<>> ELSE heading, description |-> <<>>, type |-> "text_block", data |-> [text |-> StrJoin(<<"\n">>, text_buf)], page |-> [int |-> text_page[1]]]

\* the page of the n-th box of the document
RECURSIVE PageOfBoxNo(_, _)
PageOfBoxNo(pages, n) == IF n <= Len(pages[1].layout_boxes) THEN pages[1].page_number ELSE PageOfBoxNo(Tail(pages), n - Len(pages[1].layout_boxes))

\* C20: a heading box flushes the buffered text, then the pending table, and
\* then sets the heading to the last line of its text.  Every text_block is
\* made of the text buffered since the last heading box, under the heading
\* in effect before the step that flushes it, with the page of the first text
\* box buffered; the heading changes at a heading box only, and leaves no
\* text buffered.
C20_HeadingFlush == [][
    /\ StepIsHeading =>
          /\ blocks' = blocks \o (IF text_buf # <<>> THEN <<BufferedBlock>> ELSE <<>>) \o (IF pending_table # Nothing THEN <<PendingBlock(pending_table[1])>> ELSE <<>>)
          /\ heading' = LastLineOf(StrStrip(StepBox.text))
          /\ text_buf' = <<>>
          /\ pending_table' = Nothing
    /\ heading' # heading => StepIsHeading
    /\ \A k \in (Len(blocks) + 1)..Len(blocks') : blocks'[k].type = "text_block" => (text_buf # <<>> /\ blocks'[k] = BufferedBlock)
    /\ text_buf # <<>> => text_page = Some(PageOfBoxNo(raw_pages, text_src))]_vars

\* the text under the heading "Summary" has been flushed by the heading box
\* "Annex / Totals", as a text_block titled "Summary"
C20_Witness == /\ heading = <<"T","o","t","a","l","s">>
               /\ Len(blocks) = 1
               /\ blocks[1].type = "text_block"
               /\ blocks[1].title = <<"S","u","m","m","a","r","y">>
               /\ blocks[1].data.text = <<"S","e","e"," ","b","e","l","o","w",".">>

\* the cell is text ending with ':'
EndsWithColon(cell) == cell # None /\ cell # <<>> /\ cell[Len(cell)] = ":"

\* the columns of even index, counted from 0 as the source counts them
KeyColumns(cells) == {c \in 1..Len(cells[1]) : c % 2 = 1}

\* the stated test: 2 rows and 2 columns at least, and in every column of even
\* index at least half of the rows hold text ending with ':'
KeyValueRule(cells) ==
    /\ Len(cells) >= 2
    /\ Len(cells[1]) >= 2
    /\ \A c \in KeyColumns(cells) : 2 * Cardinality({r \in 1..Len(cells) : EndsWithColon(cells[r][c])}) >= Len(cells)

\* the cell without its trailing ':' characters and the whitespace then left
\* at its end
KeyOfCell(cell) ==
    LET n == IF \E i \in 1..Len(cell) : cell[i] # ":" THEN CHOOSE i \in 1..Len(cell) : cell[i] # ":" /\ \A k \in (i + 1)..Len(cell) : cell[k] = ":" ELSE 0
        m == IF \E i \in 1..n : ~IsSpace(cell[i]) THEN CHOOSE i \in 1..n : ~IsSpace(cell[i]) /\ \A k \in (i + 1)..n : IsSpace(cell[k]) ELSE 0
    IN  SubSeq(cell, 1, m)

\* the (row, column) places of the non-empty key cells that have a next column
KeyPlaces(cells) == {p \in (1..Len(cells)) \X KeyColumns(cells) : p[2] < Len(cells[1]) /\ cells[p[1]][p[2]] # None /\ cells[p[1]][p[2]] # <<>>}

\* place q comes after place p, rows first
PlaceAfter(cells, p, q) == q[1] > p[1] \/ (q[1] = p[1] /\ q[2] > p[2])

\* the stated mapping: its keys are the keys of the key places, and each key
\* has the next column's cell of the last place that holds it
MappingRule(cells, kv) ==
    /\ DOMAIN kv = {KeyOfCell(cells[p[1]][p[2]]) : p \in KeyPlaces(cells)}
    /\ \A p \in KeyPlaces(cells) :
          (\A q \in KeyPlaces(cells) : PlaceAfter(cells, p, q) => KeyOfCell(cells[q[1]][q[2]]) # KeyOfCell(cells[p[1]][p[2]]))
             => kv[KeyOfCell(cells[p[1]][p[2]])] = cells[p[1]][p[2] + 1]

\* C21: a resolved row set is a key-value table exactly when it has at least
\* 2 rows and 2 columns and every column of even index has, in at least half
\* of the rows, a non-empty cell ending with ':'.  The mapping extracted from
\* it has, for every row and every column of even index that has a next
\* column, the key cell without trailing ':' and whitespace mapped to the
\* next column's cell; a later occurrence of a key overwrites an earlier one
\* and an empty key cell contributes nothing.
C21_KeyValue ==
    /\ pc \in {"kv_tested", "kv_extracted"} => ret[1] = KeyValueRule(arg)
    /\ pc = "kv_extracted" => MappingRule(arg, ret[2])

\* three rows: "Name:" with "x", then "Name :" with "1", then a null key
\* cell; the one key "Name" has the later value "1"
C21_Witness ==
    /\ pc = "kv_extracted"
    /\ arg = <<<<<<"N","a","m","e",":">>, <<"x">>>>, <<<<"N","a","m","e"," ",":">>, <<"1">>>>, <<None, <<"x">>>>>>
    /\ DOMAIN ret[2] = {<<"N","a","m","e">>}
    /\ ret[2][<<"N","a","m","e">>] = <<"1">>

\* the group as the claim pads or folds it to n cells
PaddedTo(group, n) == [i \in 1..n |-> IF i > Len(group) THEN None ELSE IF i < n THEN group[i] ELSE StrJoin(<<" ">>, SubSeq(group, n, Len(group)))]

\* the rows of an image_table block, the summary row last when there is one
CellRows(data) == data.rows \o (IF data.summary_row = Nothing THEN <<>> ELSE <<data.summary_row[1]>>)

\* the row groups of the k-th picture's text, read after the header lines
\* when the text is a table of its own and from the first line when it
\* continues the table before it
GroupsOfPicture(k) ==
    LET ocr_text == raw_pages[1].images[k].ocr_text
        own == _detect_image_table(ocr_text)
    IN  GroupRows(DataLines(OcrLines(ocr_text), IF own = Nothing THEN blocks[1].data.headers ELSE own[1], own = Nothing), <<>>, <<>>)

\* every row of the block has as many cells as the block has headers
CellCountRule(data) == \A r \in 1..Len(CellRows(data)) : Len(CellRows(data)[r]) = Len(data.headers)

\* every row of the block is a row group padded or folded, and every row
\* group is a row of the block
NoLineDropped(data, groups) ==
    /\ \A r \in 1..Len(CellRows(data)) : \E g \in 1..Len(groups) : CellRows(data)[r] = PaddedTo(groups[g], Len(data.headers))
    /\ \A g \in 1..Len(groups) : \E r \in 1..Len(CellRows(data)) : CellRows(data)[r] = PaddedTo(groups[g], Len(data.headers))
    /\ Len(CellRows(data)) = Len(groups)

\* C22: in every image_table block, of a first detection or of a
\* continuation, every row and the summary row have exactly as many cells as
\* the block has headers: a row group of fewer lines is padded with null
\* cells, a group of at least as many lines keeps its first lines as cells
\* and joins the remaining ones with single spaces into the last cell, so
\* that no OCR line after the header lines is dropped.
C22_ImageTableRows ==
    pc = "img_done" => \A k \in 1..Len(blocks) : blocks[k].type = "image_table" => (CellCountRule(blocks[k].data) /\ NoLineDropped(blocks[k].data, GroupsOfPicture(k)))

====
